---- MODULE Spec2Model ----
(***************************************************************************)
(* The company livery window of src/company_gui.cpp                        *)
(* (SelectCompanyLiveryWindow): the group-hierarchy flattener, the         *)
(* class/selection state machine and the invalidation handling, together   *)
(* with the externally owned group store, the loaded livery schemes and    *)
(* the livery display setting that the window reads.                       *)
(***************************************************************************)
EXTENDS Integers, Sequences, FiniteSets, TLC

(* ------------------------------------------------------------------ *)
(* Bounds of the model                                                 *)
(* ------------------------------------------------------------------ *)

\* slots of the group pool of the window specifications (group ids 0 .. MaxGroups-1)
MaxGroups == 2

\* group creations and deletions in one run of Spec
MaxStoreOps == 1

\* changes of the loaded schemes and of the livery setting in one run of SpecSchemes
MaxConfigOps == 1

\* slots of the group pool of the flattener specification
MaxFlatGroups == 3
\* the colours a run chooses from the dropdowns
MaxCommits == 1

(* ------------------------------------------------------------------ *)
(* Program constants                                                   *)
(* ------------------------------------------------------------------ *)

LS_DEFAULT == 0
LS_END == 23
LC_OTHER == 0
LC_GROUP_RAIL == 5
LC_END == 9
INVALID_GROUP == 65535
VEH_TRAIN == 0
VEH_ROAD == 1
VEH_SHIP == 2
VEH_AIRCRAFT == 3
LIT_NONE == 0
LIT_COMPANY == 1
LIT_ALL == 2
\* char last_name[2][64]: the buffer a group's display name is formatted into
NameBufSize == 64
INT_MAX == 2147483647
COLOUR_END == 16
INVALID_COLOUR == 255
\* lengthof(_colour_dropdown): the entries of the palette
PaletteSize == 16

\* static const LiveryClass _livery_class[LS_END]
_livery_class ==
  <<0,
    1, 1, 1, 1, 1, 1, 1, 1, 1, 1, 1, 1, 1,
    2, 2,
    3, 3,
    4, 4, 4,
    2, 2>>

Schemes == 0 .. (LS_END - 1)
LiveryClasses == 0 .. (LC_END - 1)
SchemeClasses == { c \in LiveryClasses : c < LC_GROUP_RAIL }
GroupClasses == { c \in LiveryClasses : c >= LC_GROUP_RAIL }
VehicleTypes == { VEH_TRAIN, VEH_ROAD, VEH_SHIP, VEH_AIRCRAFT }
GroupIds == 0 .. (MaxGroups - 1)
FlatGroupIds == 0 .. (MaxFlatGroups - 1)
Companies == { 0, 1 }
\* the companies of the game: the two a window is opened for, and a third
AllCompanies == { 0, 1, 2 }
_local_company == 0

\* the livery class of scheme s (the table is indexed from 0 in the source)
LiveryClassOf(s) == _livery_class[s + 1]

(* ------------------------------------------------------------------ *)
(* Bit operations on uint32 (core/bitmath_func.hpp, used on sel)        *)
(* ------------------------------------------------------------------ *)

Pow2(n) == 2 ^ n
HasBit(x, i) == (x \div Pow2(i)) % 2 = 1
SetBit(x, i) == IF HasBit(x, i) THEN x ELSE x + Pow2(i)
ClrBit(x, i) == IF HasBit(x, i) THEN x - Pow2(i) ELSE x
\* faulty variant of ToggleBit: the bit is set, never cleared
ToggleBitSetting(x, i) == SetBit(x, i)

ToggleBit(x, i) == IF HasBit(x, i) THEN x - Pow2(i) ELSE x + Pow2(i)

RECURSIVE MaskOf(_)
MaskOf(S) ==
  IF S = {} THEN 0
  ELSE LET s == CHOOSE x \in S : TRUE IN Pow2(s) + MaskOf(S \ {s})

BitsOf(x) == { s \in Schemes : HasBit(x, s) }

(* ------------------------------------------------------------------ *)
(* State                                                               *)
(* ------------------------------------------------------------------ *)

VARIABLES
  store,            \* the group pool: id -> record (valid, owner, vehicle_type, parent, name)
  used_liveries,    \* _loaded_newgrf_features.used_liveries
  liveries,         \* _settings_client.gui.liveries
  pending,          \* invalidations scheduled for the window, not yet delivered in GUI scope
  nops,             \* number of changes the environment has made so far
  window_number,    \* the company the window belongs to
  livery_class,     \* this->livery_class
  sel,              \* this->sel: scheme bitmask or group id
  rows,             \* this->rows (and the scrollbar count)
  groups,           \* this->groups: the flattened list (group pointers, named by id)
  indents,          \* this->indents
  need_rebuild,     \* this->groups.NeedRebuild()
  lowered,          \* the class buttons that are lowered
  class_disabled,   \* the class buttons that are disabled
  dd_disabled,      \* the colour dropdown buttons are disabled
  dangling,         \* ids of entries of this->groups whose group was deleted since the build
  colours,          \* Company::colour of every company
  company_livery,   \* Company::livery of the window's company: scheme -> livery
  group_livery,     \* Group::livery: group id -> livery
  commands,         \* the commands posted and not yet executed
  ncommits,         \* number of colours chosen from a dropdown so far
  dropdown,         \* the colour dropdown that is open, or Closed
  last              \* the last event handled: its name, its argument, and whether
                    \* it replaced the selection (recorded for invalidations)

vars ==
  <<store, used_liveries, liveries, pending, nops, window_number, livery_class, sel,
    rows, groups, indents, need_rebuild, lowered, class_disabled, dd_disabled,
    dangling, colours, company_livery, group_livery, commands, ncommits, dropdown,
    last>>

NoGroup ==
  [valid |-> FALSE, owner |-> 0, vehicle_type |-> 0, parent |-> INVALID_GROUP, name |-> <<>>]

\* Group::IsValidID
IsValidID(st, g) == g \in DOMAIN st /\ st[g].valid

(* ------------------------------------------------------------------ *)
(* Display names and the natural-order comparator                      *)
(* Names are byte strings: sequences of character codes.               *)
(* ------------------------------------------------------------------ *)

Min(S) == CHOOSE x \in S : \A y \in S : x <= y

IsDigit(c) == c >= 48 /\ c <= 57
ToLower(c) == IF c >= 65 /\ c <= 90 THEN c + 32 ELSE c
Sign(n) == IF n < 0 THEN -1 ELSE IF n > 0 THEN 1 ELSE 0

\* the index just past the run of digits of s that starts at i
RECURSIVE DigitRunEnd(_, _)
DigitRunEnd(s, i) ==
  IF i <= Len(s) /\ IsDigit(s[i]) THEN DigitRunEnd(s, i + 1) ELSE i

\* the number written by the digits s[i .. j-1]
RECURSIVE DigitRunValue(_, _, _)
DigitRunValue(s, i, j) ==
  IF j <= i THEN 0 ELSE DigitRunValue(s, i, j - 1) * 10 + (s[j - 1] - 48)

\* natural comparison of a from index i with b from index j: -1, 0 or 1
RECURSIVE NatCmpFrom(_, _, _, _)
NatCmpFrom(a, b, i, j) ==
  IF i > Len(a) /\ j > Len(b) THEN 0
  ELSE IF i > Len(a) THEN -1
  ELSE IF j > Len(b) THEN 1
  ELSE IF IsDigit(a[i]) /\ IsDigit(b[j]) THEN
    LET ei == DigitRunEnd(a, i)
        ej == DigitRunEnd(b, j)
        va == DigitRunValue(a, i, ei)
        vb == DigitRunValue(b, j, ej)
    IN IF va # vb THEN Sign(va - vb) ELSE NatCmpFrom(a, b, ei, ej)
  ELSE IF ToLower(a[i]) # ToLower(b[j]) THEN Sign(ToLower(a[i]) - ToLower(b[j]))
  ELSE NatCmpFrom(a, b, i + 1, j + 1)

\* the length of the longest common prefix of a and b, letter case ignored
CommonPrefix(a, b) ==
  LET n == IF Len(a) < Len(b) THEN Len(a) ELSE Len(b)
      d == { i \in 1 .. n : ToLower(a[i]) # ToLower(b[i]) }
  IN IF d = {} THEN n ELSE (CHOOSE i \in d : \A j \in d : i <= j) - 1

\* where the run of digits that ends the prefix a[1 .. k] starts (k + 1 if there is none)
RunStart(a, k) ==
  LET starts == { s \in 1 .. (k + 1) : \A i \in s .. k : IsDigit(a[i]) }
  IN CHOOSE s \in starts : \A t \in starts : s <= t

\* strnatcmp(s1, s2): case-insensitive, runs of digits compared by magnitude.
\* The common prefix compares equal token by token, so the comparison starts
\* at the token in which the strings first differ.
strnatcmp(a, b) ==
  LET s == RunStart(a, CommonPrefix(a, b)) IN NatCmpFrom(a, b, s, s)

\* GetString(last_name[k], STR_GROUP_NAME, lastof(last_name[k])): the group's
\* display name written into the 64-byte buffer: at most 63 bytes of it fit.
GetString(name) ==
  IF Len(name) < NameBufSize THEN name ELSE SubSeq(name, 1, NameBufSize - 1)

\* a comparator by name alone: groups with equal names are left as they come
GroupSorterByNameOnly(st, a, b) ==
  strnatcmp(GetString(st[a].name), GetString(st[b].name)) < 0

\* comparison byte by byte, as strcmp makes it: -1, 0 or 1
RECURSIVE ByteCmpFrom(_, _, _)
ByteCmpFrom(a, b, i) ==
  IF i > Len(a) /\ i > Len(b) THEN 0
  ELSE IF i > Len(a) THEN -1
  ELSE IF i > Len(b) THEN 1
  ELSE IF a[i] # b[i] THEN Sign(a[i] - b[i])
  ELSE ByteCmpFrom(a, b, i + 1)

\* faulty variant of the comparator: the names are compared byte by byte
GroupSorterByBytes(st, a, b) ==
  LET r == ByteCmpFrom(GetString(st[a].name), GetString(st[b].name), 1)
  IN IF r = 0 THEN a < b ELSE r < 0

\* the comparator handed to list.Sort: by name, equal names by index
GroupSorter(st, a, b) ==
  LET r == strnatcmp(GetString(st[a].name), GetString(st[b].name))
  IN IF r = 0 THEN a < b ELSE r < 0

(* ------------------------------------------------------------------ *)
(* The flattener: BuildGroupList and AddChildren                       *)
(* ------------------------------------------------------------------ *)

\* Group::Iterate() restricted to owner and vehicle type, in pool (index) order
\* faulty variant of the filter: the vehicle type is not compared
RECURSIVE IterateAnyType(_, _, _, _)
IterateAnyType(st, owner, vtype, g) ==
  IF g \notin DOMAIN st THEN <<>>
  ELSE IF st[g].valid /\ st[g].owner = owner
    THEN <<g>> \o IterateAnyType(st, owner, vtype, g + 1)
    ELSE IterateAnyType(st, owner, vtype, g + 1)

RECURSIVE IterateMatching(_, _, _, _)
IterateMatching(st, owner, vtype, g) ==
  IF g \notin DOMAIN st THEN <<>>
  ELSE IF st[g].valid /\ st[g].owner = owner /\ st[g].vehicle_type = vtype
    THEN <<g>> \o IterateMatching(st, owner, vtype, g + 1)
    ELSE IterateMatching(st, owner, vtype, g + 1)

\* x put into the sorted sequence s, before the first element it sorts before
RECURSIVE SortedInsert(_, _, _)
SortedInsert(st, s, x) ==
  IF s = <<>> THEN <<x>>
  ELSE IF GroupSorter(st, x, Head(s)) THEN <<x>> \o s
  ELSE <<Head(s)>> \o SortedInsert(st, Tail(s), x)

\* list.Sort(comparator): the elements of s in the comparator's order
RECURSIVE SortList(_, _)
SortList(st, s) ==
  IF s = <<>> THEN <<>> ELSE SortedInsert(st, SortList(st, Tail(s)), Head(s))

\* AddChildren(source, parent, indent), from position i of source on: the
\* (group, indent) pairs pushed onto this->groups and this->indents
RECURSIVE AddChildrenFrom(_, _, _, _, _)
AddChildrenFrom(st, source, parent, indent, i) ==
  IF i > Len(source) THEN <<>>
  ELSE LET g == source[i] IN
    IF st[g].parent # parent THEN AddChildrenFrom(st, source, parent, indent, i + 1)
    ELSE <<[group |-> g, indent |-> indent]>>
         \o AddChildrenFrom(st, source, g, indent + 1, 1)
         \o AddChildrenFrom(st, source, parent, indent, i + 1)

\* faulty variant of AddChildren: all the children of parent are pushed before
\* any of their own children
RECURSIVE ChildrenOf(_, _, _, _)
ChildrenOf(st, source, parent, i) ==
  IF i > Len(source) THEN <<>>
  ELSE IF st[source[i]].parent = parent
    THEN <<source[i]>> \o ChildrenOf(st, source, parent, i + 1)
    ELSE ChildrenOf(st, source, parent, i + 1)

RECURSIVE AddLevels(_, _, _, _, _)
AddLevels(st, source, level, indent, fuel) ==
  IF level = <<>> \/ fuel = 0 THEN <<>>
  ELSE LET RECURSIVE Below(_)
           Below(k) == IF k > Len(level) THEN <<>>
                       ELSE ChildrenOf(st, source, level[k], 1) \o Below(k + 1)
       IN [k \in 1 .. Len(level) |-> [group |-> level[k], indent |-> indent]]
          \o AddLevels(st, source, Below(1), indent + 1, fuel - 1)

AddChildrenLevelOrder(st, source, parent, indent) ==
  AddLevels(st, source, ChildrenOf(st, source, parent, 1), indent, Len(source))

\* faulty variant of AddChildren: a group whose parent is not in source is pushed
\* as if its parent were the one asked for
AddChildrenAdopting(st, source, parent, indent) ==
  LET members == { source[k] : k \in 1 .. Len(source) }
      adopted == [ g \in DOMAIN st |->
                     IF g \in members /\ st[g].parent \notin members
                     THEN [st[g] EXCEPT !.parent = parent] ELSE st[g] ]
  IN AddChildrenFrom(adopted, source, parent, indent, 1)

\* faulty variant of AddChildren: the children are pushed at their parent's indent
AddChildrenSameIndent(st, source, parent, indent) ==
  LET r == AddChildrenFrom(st, source, parent, indent, 1)
  IN [k \in 1 .. Len(r) |-> [r[k] EXCEPT !.indent = indent]]

\* a is reached from g by following the parent links of st (at most fuel of them)
RECURSIVE LeadsTo(_, _, _, _)
LeadsTo(st, g, a, fuel) ==
  /\ fuel > 0
  /\ g \in DOMAIN st
  /\ \/ st[g].parent = a
     \/ LeadsTo(st, st[g].parent, a, fuel - 1)

\* faulty variant of AddChildren: a group whose parent links lead back to itself
\* is pushed as if its parent were the one asked for
AddChildrenCycleRoots(st, source, parent, indent) ==
  LET members == { source[k] : k \in 1 .. Len(source) }
      opened == [ g \in DOMAIN st |->
                    IF g \in members /\ LeadsTo(st, g, g, Cardinality(DOMAIN st))
                    THEN [st[g] EXCEPT !.parent = parent] ELSE st[g] ]
  IN AddChildrenFrom(opened, source, parent, indent, 1)

AddChildren(st, source, parent, indent) == AddChildrenFrom(st, source, parent, indent, 1)

\* the list BuildGroupList builds for a group class: filter, sort, emit from the roots
Flatten(st, owner, vtype) ==
  AddChildren(st, SortList(st, IterateMatching(st, owner, vtype, 0)), INVALID_GROUP, 0)

FlatGroups(st, owner, vtype) ==
  LET f == Flatten(st, owner, vtype) IN [i \in 1 .. Len(f) |-> f[i].group]

FlatIndents(st, owner, vtype) ==
  LET f == Flatten(st, owner, vtype) IN [i \in 1 .. Len(f) |-> f[i].indent]

(* ------------------------------------------------------------------ *)
(* The window, as a record of its fields                               *)
(* ------------------------------------------------------------------ *)

Win ==
  [livery_class |-> livery_class, sel |-> sel, rows |-> rows, groups |-> groups,
   indents |-> indents, need_rebuild |-> need_rebuild, lowered |-> lowered,
   class_disabled |-> class_disabled, dd_disabled |-> dd_disabled, dangling |-> dangling]

SetWin(w) ==
  /\ livery_class' = w.livery_class
  /\ sel' = w.sel
  /\ rows' = w.rows
  /\ groups' = w.groups
  /\ indents' = w.indents
  /\ need_rebuild' = w.need_rebuild
  /\ lowered' = w.lowered
  /\ class_disabled' = w.class_disabled
  /\ dd_disabled' = w.dd_disabled
  /\ dangling' = w.dangling

\* the memory of a new window is zeroed; the list starts empty and needs no rebuild
ZeroedWindow ==
  [livery_class |-> 0, sel |-> 0, rows |-> 0, groups |-> <<>>, indents |-> <<>>,
   need_rebuild |-> FALSE, lowered |-> {}, class_disabled |-> {}, dd_disabled |-> FALSE,
   dangling |-> {}]

\* scheme is shown in livery class c: it belongs to c and is in use
SchemeActive(c, used, scheme) == LiveryClassOf(scheme) = c /\ HasBit(used, scheme)

ActiveSchemes(c, used) == { s \in Schemes : SchemeActive(c, used, s) }


\* this->groups.ForceRebuild()
ForceRebuild(w) == [w EXCEPT !.need_rebuild = TRUE]

\* a rebuild that does not clear the list and the indents first
BuildGroupListAppending(w, st, owner) ==
  IF ~w.need_rebuild THEN w
  ELSE IF w.livery_class >= LC_GROUP_RAIL THEN
    [w EXCEPT !.groups = @ \o FlatGroups(st, owner, w.livery_class - LC_GROUP_RAIL),
              !.indents = @ \o FlatIndents(st, owner, w.livery_class - LC_GROUP_RAIL),
              !.dangling = {},
              !.need_rebuild = FALSE]
  ELSE [w EXCEPT !.dangling = {}, !.need_rebuild = FALSE]

\* SelectCompanyLiveryWindow::BuildGroupList(owner)
BuildGroupList(w, st, owner) ==
  IF ~w.need_rebuild THEN w
  ELSE IF w.livery_class >= LC_GROUP_RAIL THEN
    [w EXCEPT !.groups = FlatGroups(st, owner, w.livery_class - LC_GROUP_RAIL),
              !.indents = FlatIndents(st, owner, w.livery_class - LC_GROUP_RAIL),
              !.dangling = {},
              !.need_rebuild = FALSE]
  ELSE [w EXCEPT !.groups = <<>>, !.indents = <<>>, !.dangling = {}, !.need_rebuild = FALSE]

\* SelectCompanyLiveryWindow::SetRows()
SetRows(w, used) ==
  IF w.livery_class < LC_GROUP_RAIL
    THEN [w EXCEPT !.rows = Cardinality(ActiveSchemes(w.livery_class, used))]
    ELSE [w EXCEPT !.rows = Len(w.groups)]

\* faulty variant of the scheme search: whether the scheme is in use is not tested
FirstSchemeSelAnyUse(c, used) ==
  IF { s \in Schemes : LiveryClassOf(s) = c } = {} THEN 0
  ELSE Pow2(Min({ s \in Schemes : LiveryClassOf(s) = c }))

\* the selection OnClick makes after a switch to scheme class c: the first active scheme
FirstSchemeSel(c, used) ==
  IF ActiveSchemes(c, used) = {} THEN 0 ELSE Pow2(Min(ActiveSchemes(c, used)))

\* the selection OnClick makes after a switch to a group class: the first row
FirstGroupSel(w) == IF Len(w.groups) > 0 THEN w.groups[1] ELSE INVALID_GROUP

\* faulty variant of the class switch: the list is not forced to rebuild
OnClickClassCached(w, st, used, owner, c) ==
  LET w1 == [w EXCEPT !.lowered = (w.lowered \ {w.livery_class}) \cup {c},
                      !.livery_class = c]
      w2 == IF c < LC_GROUP_RAIL
              THEN [w1 EXCEPT !.sel = FirstSchemeSel(c, used)]
              ELSE LET b == BuildGroupList([w1 EXCEPT !.sel = INVALID_GROUP], st, owner)
                   IN [b EXCEPT !.sel = FirstGroupSel(b)]
  IN SetRows(w2, used)

\* faulty variant of the class switch: the new button is lowered before the
\* button of the old class is raised
OnClickClassLowerFirst(w, st, used, owner, c) ==
  LET w1 == [w EXCEPT !.lowered = (w.lowered \cup {c}) \ {w.livery_class},
                      !.livery_class = c]
      w2 == IF c < LC_GROUP_RAIL
              THEN [w1 EXCEPT !.sel = FirstSchemeSel(c, used)]
              ELSE LET b == BuildGroupList(ForceRebuild([w1 EXCEPT !.sel = INVALID_GROUP]),
                                           st, owner)
                   IN [b EXCEPT !.sel = FirstGroupSel(b)]
  IN SetRows(w2, used)

\* OnClick on the class button of livery class c
OnClickClass(w, st, used, owner, c) ==
  LET w1 == [w EXCEPT !.lowered = (w.lowered \ {w.livery_class}) \cup {c},
                      !.livery_class = c]
      w2 == IF c < LC_GROUP_RAIL
              THEN [w1 EXCEPT !.sel = FirstSchemeSel(c, used)]
              ELSE LET b == BuildGroupList(ForceRebuild([w1 EXCEPT !.sel = INVALID_GROUP]),
                                           st, owner)
                   IN [b EXCEPT !.sel = FirstGroupSel(b)]
  IN SetRows(w2, used)

\* the scheme the loop of OnClick arrives at for a row of scheme class c:
\* j starts at row and moves on by one for every scheme up to j that is not shown
RECURSIVE RowToSchemeFrom(_, _, _, _)
RowToSchemeFrom(c, used, j, scheme) ==
  IF scheme <= j /\ scheme < LS_END
    THEN RowToSchemeFrom(c, used, IF SchemeActive(c, used, scheme) THEN j ELSE j + 1,
                         scheme + 1)
    ELSE j

RowToScheme(c, used, row) == RowToSchemeFrom(c, used, row, LS_DEFAULT)

\* what this->groups[row]->index reads: the group's index, or, when the group
\* was deleted after the list was built, whatever the freed memory holds
ReadIndex(w, st, row) ==
  IF w.groups[row + 1] \in w.dangling
    THEN (DOMAIN st) \cup {INVALID_GROUP}
    ELSE {w.groups[row + 1]}

\* faulty variant of the matrix click: _ctrl_pressed is not looked at
OnClickMatrixReplacing(w, used, row, ctrl, idx) ==
  IF w.livery_class < LC_GROUP_RAIL THEN
    [w EXCEPT !.sel = Pow2(RowToScheme(w.livery_class, used, row))]
  ELSE [w EXCEPT !.sel = idx]

\* OnClick on the matrix, for a row below this->rows; idx is the index read from the
\* clicked group, ctrl is _ctrl_pressed
OnClickMatrix(w, used, row, ctrl, idx) ==
  IF w.livery_class < LC_GROUP_RAIL THEN
    LET j == RowToScheme(w.livery_class, used, row)
    IN [w EXCEPT !.sel = IF ctrl THEN ToggleBit(w.sel, j) ELSE Pow2(j)]
  ELSE [w EXCEPT !.sel = idx]

\* faulty variant of the invalidation: the list is not forced to rebuild
InvalidateVehicleTypeCached(w, st, used, owner, data) ==
  IF w.livery_class = data + LC_GROUP_RAIL THEN
    LET b == SetRows(BuildGroupList(w, st, owner), used)
    IN IF ~IsValidID(st, b.sel) THEN [b EXCEPT !.sel = FirstGroupSel(b)] ELSE b
  ELSE w

\* faulty variant of the invalidation: the selection is reset whatever it was
InvalidateVehicleTypeResetting(w, st, used, owner, data) ==
  IF w.livery_class = data + LC_GROUP_RAIL THEN
    LET b == SetRows(BuildGroupList(ForceRebuild(w), st, owner), used)
    IN [b EXCEPT !.sel = FirstGroupSel(b)]
  ELSE w

\* faulty variant of the invalidation: a selection of INVALID_GROUP is left alone
InvalidateVehicleTypeKeepingNone(w, st, used, owner, data) ==
  IF w.livery_class = data + LC_GROUP_RAIL THEN
    LET b == SetRows(BuildGroupList(ForceRebuild(w), st, owner), used)
    IN IF b.sel # INVALID_GROUP /\ ~IsValidID(st, b.sel)
         THEN [b EXCEPT !.sel = FirstGroupSel(b)] ELSE b
  ELSE w

\* the part of OnInvalidateData for data = a vehicle type
InvalidateVehicleType(w, st, used, owner, data) ==
  IF w.livery_class = data + LC_GROUP_RAIL THEN
    LET b == SetRows(BuildGroupList(ForceRebuild(w), st, owner), used)
    IN IF ~IsValidID(st, b.sel) THEN [b EXCEPT !.sel = FirstGroupSel(b)] ELSE b
  ELSE w

\* livery display is on for the window's company
LiveriesShown(lit, owner) ==
  lit = LIT_ALL \/ (lit = LIT_COMPANY /\ owner = _local_company)

\* faulty variant of the general invalidation: no bit of the selection is cleared
InvalidateGeneralKeepingBits(w, st, used, lit, owner) ==
  LET shown == LiveriesShown(lit, owner)
      usedSchemes == { s \in Schemes : HasBit(used, s) }
      valid == \/ w.livery_class = LC_OTHER
               \/ w.livery_class >= LC_GROUP_RAIL
               \/ (shown /\ \E s \in usedSchemes : LiveryClassOf(s) = w.livery_class)
      w1 == [w EXCEPT
               !.class_disabled =
                 (w.class_disabled \cup {1, 2, 3, 4})
                   \ (IF shown THEN { LiveryClassOf(s) : s \in usedSchemes } ELSE {})]
  IN IF valid THEN w1 ELSE OnClickClass(w1, st, used, owner, LC_OTHER)

\* the part of OnInvalidateData for data = -1
InvalidateGeneral(w, st, used, lit, owner) ==
  LET shown == LiveriesShown(lit, owner)
      usedSchemes == { s \in Schemes : HasBit(used, s) }
      valid == \/ w.livery_class = LC_OTHER
               \/ w.livery_class >= LC_GROUP_RAIL
               \/ (shown /\ \E s \in usedSchemes : LiveryClassOf(s) = w.livery_class)
      w1 == [w EXCEPT
               !.class_disabled =
                 (w.class_disabled \cup {1, 2, 3, 4})
                   \ (IF shown THEN { LiveryClassOf(s) : s \in usedSchemes } ELSE {}),
               !.sel =
                 IF shown /\ w.livery_class < LC_GROUP_RAIL
                   THEN w.sel - MaskOf(BitsOf(w.sel) \ usedSchemes)
                   ELSE w.sel]
  IN IF valid THEN w1 ELSE OnClickClass(w1, st, used, owner, LC_OTHER)

\* faulty variant of the handler: the scope of the call is not tested
OnInvalidateDataAnyScope(w, st, used, lit, owner, data, gui_scope) ==
  IF data # -1 THEN InvalidateVehicleType(w, st, used, owner, data)
  ELSE InvalidateGeneral(w, st, used, lit, owner)

\* SelectCompanyLiveryWindow::OnInvalidateData(data, gui_scope)
OnInvalidateData(w, st, used, lit, owner, data, gui_scope) ==
  IF ~gui_scope THEN w
  ELSE IF data # -1 THEN InvalidateVehicleType(w, st, used, owner, data)
  ELSE InvalidateGeneral(w, st, used, lit, owner)

\* the livery class SetSelectedGroup switches to for a vehicle type
GroupClassOf(vtype) == LC_GROUP_RAIL + vtype

\* SelectCompanyLiveryWindow::SetSelectedGroup(company, group)
SetSelectedGroup(w, st, used, company, group) ==
  LET c == GroupClassOf(st[group].vehicle_type)
      w1 == [w EXCEPT !.lowered = (w.lowered \ {w.livery_class}) \cup {c},
                      !.livery_class = c,
                      !.sel = group]
  IN SetRows(BuildGroupList(ForceRebuild(w1), st, company), used)

\* the constructor: SelectCompanyLiveryWindow(desc, company, group)
Construct(st, used, lit, company, group) ==
  LET w1 == IF group = INVALID_GROUP
              THEN SetRows(BuildGroupList([ZeroedWindow EXCEPT !.livery_class = LC_OTHER,
                                                               !.sel = 1,
                                                               !.lowered = {LC_OTHER}],
                                          st, company), used)
              ELSE SetSelectedGroup(ZeroedWindow, st, used, company, group)
  IN OnInvalidateData(w1, st, used, lit, company, 1, TRUE)

\* SelectCompanyLiveryWindow::OnPaint()
OnPaint(w, st, owner) ==
  LET local == owner = _local_company
      disabled == IF w.livery_class < LC_GROUP_RAIL THEN w.sel = 0
                  ELSE w.sel = INVALID_GROUP
  IN BuildGroupList([w EXCEPT !.dd_disabled = (~local \/ disabled)], st, owner)

\* the colours of the other companies, for either colour of the default scheme
UsedColoursAnySlot(w, cols, primary) ==
  IF w.livery_class < LC_GROUP_RAIL /\ HasBit(w.sel, LS_DEFAULT)
    THEN { cols[c] : c \in (DOMAIN cols) \ {_local_company} }
    ELSE {}

\* the colours of all companies, for the primary colour of the default scheme
UsedColoursOfAll(w, cols, primary) ==
  IF w.livery_class < LC_GROUP_RAIL /\ HasBit(w.sel, LS_DEFAULT) /\ primary
    THEN { cols[c] : c \in DOMAIN cols }
    ELSE {}

\* the colours ShowColourDropDownMenu sets in used_colours: the colours of the
\* other companies, for the primary colour of the default scheme
UsedColours(w, cols, primary) ==
  IF w.livery_class < LC_GROUP_RAIL /\ HasBit(w.sel, LS_DEFAULT) /\ primary
    THEN { cols[c] : c \in (DOMAIN cols) \ {_local_company} }
    ELSE {}

\* the first selected scheme, LS_DEFAULT if no scheme is selected
FirstSelected(x) ==
  IF \E s \in Schemes : HasBit(x, s) THEN Min({ s \in Schemes : HasBit(x, s) })
  ELSE LS_DEFAULT

\* Group::Get(this->sel) and Group::Get(g->parent) both name a group of the pool
GroupReadable(w, st) ==
  /\ IsValidID(st, w.sel)
  /\ st[w.sel].parent = INVALID_GROUP \/ IsValidID(st, st[w.sel].parent)

\* livery and default_livery, with the company's default scheme as the default of
\* every group
LiveriesReadCompanyDefault(w, st, clivery, glivery) ==
  IF w.livery_class < LC_GROUP_RAIL THEN
    [livery |-> clivery[FirstSelected(w.sel)],
     default_livery |-> IF FirstSelected(w.sel) # LS_DEFAULT THEN <<clivery[LS_DEFAULT]>>
                        ELSE <<>>]
  ELSE
    [livery |-> glivery[w.sel], default_livery |-> <<clivery[LS_DEFAULT]>>]

\* livery and default_livery as ShowColourDropDownMenu finds them; default_livery
\* is <<>> for nullptr
LiveriesRead(w, st, clivery, glivery) ==
  IF w.livery_class < LC_GROUP_RAIL THEN
    [livery |-> clivery[FirstSelected(w.sel)],
     default_livery |-> IF FirstSelected(w.sel) # LS_DEFAULT THEN <<clivery[LS_DEFAULT]>>
                        ELSE <<>>]
  ELSE
    [livery |-> glivery[w.sel],
     default_livery |-> IF st[w.sel].parent = INVALID_GROUP THEN <<clivery[LS_DEFAULT]>>
                        ELSE <<glivery[st[w.sel].parent]>>]

ColourOf(livery, primary) == IF primary THEN livery.colour1 ELSE livery.colour2

\* the list ShowColourDropDownMenu builds without the entry of the default
PaletteOnly(used_colours) ==
  [i \in 1 .. PaletteSize |-> [result |-> i - 1, masked |-> (i - 1) \in used_colours]]

\* the palette alone, whether there is a default or not
DropDownListNoDefault(used_colours, default_col) == PaletteOnly(used_colours)

\* the list ShowColourDropDownMenu builds: the entry of the default, if there is
\* one, then the palette
DropDownList(used_colours, default_col) ==
  [i \in 1 .. Len(default_col) |-> [result |-> default_col[i], masked |-> FALSE]]
    \o PaletteOnly(used_colours)

\* the dropdown with the livery's own colour preselected, in use or not
ShowColourDropDownMenuOwnColour(w, cols, read, primary) ==
  LET default_col == [i \in 1 .. Len(read.default_livery) |->
                        (ColourOf(read.default_livery[i], primary) + COLOUR_END) % 256]
  IN [open |-> TRUE,
      primary |-> primary,
      list |-> DropDownList(UsedColours(w, cols, primary), default_col),
      sel |-> ColourOf(read.livery, primary)]

\* faulty variant of the dropdown: a slot that is not in use preselects
\* INVALID_COLOUR, whether or not the list has an entry of the default
ShowColourDropDownMenuInvalidColour(w, cols, read, primary) ==
  LET default_col == [i \in 1 .. Len(read.default_livery) |->
                        (ColourOf(read.default_livery[i], primary) + COLOUR_END) % 256]
  IN [open |-> TRUE,
      primary |-> primary,
      list |-> DropDownList(UsedColours(w, cols, primary), default_col),
      sel |-> IF HasBit(read.livery.in_use, IF primary THEN 0 ELSE 1)
                THEN ColourOf(read.livery, primary)
                ELSE INVALID_COLOUR]

\* ShowColourDropDownMenu(widget) for the liveries read: the dropdown it shows
ShowColourDropDownMenu(w, cols, read, primary) ==
  LET default_col == [i \in 1 .. Len(read.default_livery) |->
                        (ColourOf(read.default_livery[i], primary) + COLOUR_END) % 256]
  IN [open |-> TRUE,
      primary |-> primary,
      list |-> DropDownList(UsedColours(w, cols, primary), default_col),
      sel |-> IF read.default_livery = <<>>
                   \/ HasBit(read.livery.in_use, IF primary THEN 0 ELSE 1)
                THEN ColourOf(read.livery, primary)
                ELSE default_col[1]]

\* one command for every selected scheme from scheme on, whatever ctrl is
RECURSIVE CompanyColourPostsSelected(_, _, _, _, _, _)
CompanyColourPostsSelected(w, used, primary, colour, ctrl, scheme) ==
  IF scheme >= LS_END THEN <<>>
  ELSE IF HasBit(w.sel, scheme)
    THEN <<[cmd |-> "CMD_SET_COMPANY_COLOUR", target |-> scheme, primary |-> primary,
            colour |-> colour]>>
           \o CompanyColourPostsSelected(w, used, primary, colour, ctrl, scheme + 1)
    ELSE CompanyColourPostsSelected(w, used, primary, colour, ctrl, scheme + 1)

\* the commands OnDropdownSelect posts for the schemes from scheme on
RECURSIVE CompanyColourPosts(_, _, _, _, _, _)
CompanyColourPosts(w, used, primary, colour, ctrl, scheme) ==
  IF scheme >= LS_END THEN <<>>
  ELSE IF HasBit(w.sel, scheme)
          \/ (ctrl /\ _livery_class[scheme + 1] = w.livery_class /\ HasBit(used, scheme))
    THEN <<[cmd |-> "CMD_SET_COMPANY_COLOUR", target |-> scheme, primary |-> primary,
            colour |-> colour]>>
           \o CompanyColourPosts(w, used, primary, colour, ctrl, scheme + 1)
    ELSE CompanyColourPosts(w, used, primary, colour, ctrl, scheme + 1)

\* faulty variant of the handler: the window's company is not compared with the
\* local company
OnDropdownSelectAnyCompany(w, used, owner, primary, index, ctrl) ==
  IF w.livery_class < LC_GROUP_RAIL
    THEN CompanyColourPosts(w, used, primary,
                            IF index >= COLOUR_END THEN INVALID_COLOUR ELSE index,
                            ctrl, LS_DEFAULT)
    ELSE <<[cmd |-> "CMD_SET_GROUP_LIVERY", target |-> w.sel, primary |-> primary,
            colour |-> IF index >= COLOUR_END THEN INVALID_COLOUR ELSE index]>>

\* SelectCompanyLiveryWindow::OnDropdownSelect(widget, index): the commands posted
OnDropdownSelect(w, used, owner, primary, index, ctrl) ==
  IF owner # _local_company THEN <<>>
  ELSE IF w.livery_class < LC_GROUP_RAIL
    THEN CompanyColourPosts(w, used, primary,
                            IF index >= COLOUR_END THEN INVALID_COLOUR ELSE index,
                            ctrl, LS_DEFAULT)
    ELSE <<[cmd |-> "CMD_SET_GROUP_LIVERY", target |-> w.sel, primary |-> primary,
            colour |-> IF index >= COLOUR_END THEN INVALID_COLOUR ELSE index]>>

(* ------------------------------------------------------------------ *)
(* The environment: the group store, the loaded schemes, the setting   *)
(* ------------------------------------------------------------------ *)

\* the sets of schemes a loaded configuration may use; LS_DEFAULT is always used
UsedChoices == { MaskOf({0}), MaskOf({0, 1, 3}), MaskOf({0, 3, 14, 21}) }

Grp(o, t, p, n) == [owner |-> o, vehicle_type |-> t, parent |-> p, name |-> n]

\* the groups the environment creates: owner, vehicle type, display name ("B", "a")
GroupKinds ==
  { Grp(0, VEH_TRAIN, INVALID_GROUP, <<66>>), Grp(0, VEH_TRAIN, INVALID_GROUP, <<97>>),
    Grp(0, VEH_ROAD, INVALID_GROUP, <<97>>), Grp(1, VEH_TRAIN, INVALID_GROUP, <<66>>) }

\* the pool with slots ids that holds the groups gs[1], gs[2], ... in slots 0, 1, ...
StoreOf(ids, gs) ==
  [g \in ids |->
     IF g + 1 <= Len(gs)
       THEN [valid |-> TRUE, owner |-> gs[g + 1].owner,
             vehicle_type |-> gs[g + 1].vehicle_type, parent |-> gs[g + 1].parent,
             name |-> gs[g + 1].name]
       ELSE NoGroup]

\* the stores a run of the window starts from: the empty pool; a single root "B";
\* a root "B" with a child "a" and a second root "a"; roots "B" and "a" and a road
\* group; groups of two companies and two vehicle types
InitStores ==
  { StoreOf(GroupIds, <<>>),
    StoreOf(GroupIds, <<Grp(0, VEH_TRAIN, INVALID_GROUP, <<66>>)>>),
    StoreOf(GroupIds, <<Grp(0, VEH_TRAIN, INVALID_GROUP, <<66>>), Grp(0, VEH_TRAIN, 0, <<97>>),
                        Grp(0, VEH_TRAIN, INVALID_GROUP, <<97>>)>>),
    StoreOf(GroupIds, <<Grp(0, VEH_TRAIN, INVALID_GROUP, <<66>>),
                        Grp(0, VEH_TRAIN, INVALID_GROUP, <<97>>),
                        Grp(0, VEH_ROAD, INVALID_GROUP, <<97>>)>>),
    StoreOf(GroupIds, <<Grp(1, VEH_TRAIN, INVALID_GROUP, <<66>>),
                        Grp(0, VEH_ROAD, INVALID_GROUP, <<97>>),
                        Grp(0, VEH_ROAD, 1, <<66>>)>>) }

\* the stores a run of SpecSchemes keeps: the empty pool, and the train groups
SchemeStores ==
  { StoreOf(GroupIds, <<>>),
    StoreOf(GroupIds, <<Grp(0, VEH_TRAIN, INVALID_GROUP, <<66>>), Grp(0, VEH_TRAIN, 0, <<97>>),
                        Grp(0, VEH_TRAIN, INVALID_GROUP, <<97>>)>>) }

\* the program has stopped: assert(j < LS_END) failed, or a group that is not in
\* the pool was dereferenced
Crashed == last.op \in {"AssertionFailed", "InvalidPointer"}

colour_state == <<colours, company_livery, group_livery, commands, ncommits>>

\* no colour dropdown is open
Closed == [open |-> FALSE]

\* a Livery: the in_use bits and the two colours
Liv(in_use, colour1, colour2) == [in_use |-> in_use, colour1 |-> colour1, colour2 |-> colour2]

\* the pool hands out the first free index
FirstFree(st) == Min({ g \in DOMAIN st : ~st[g].valid })

\* a group is created (its parent an existing group of the same owner and type, or none);
\* the owner's window is told in non-GUI scope, which it ignores, and the
\* GUI-scope invalidation is scheduled
CreateGroup(owner, vtype, parent, name) ==
  /\ ~Crashed
  /\ nops < MaxStoreOps
  /\ \E g \in DOMAIN store : ~store[g].valid
  /\ \/ parent = INVALID_GROUP
     \/ /\ IsValidID(store, parent)
        /\ store[parent].owner = owner
        /\ store[parent].vehicle_type = vtype
  /\ store' = [store EXCEPT ![FirstFree(store)] =
                 [valid |-> TRUE, owner |-> owner, vehicle_type |-> vtype,
                  parent |-> parent, name |-> name]]
  /\ pending' = IF owner = window_number THEN pending \cup {vtype} ELSE pending
  /\ nops' = nops + 1
  /\ SetWin(OnInvalidateData(Win, store', used_liveries, liveries, window_number,
                             vtype, FALSE))
  /\ UNCHANGED <<used_liveries, liveries, window_number, last, colour_state, dropdown>>

\* a group is deleted; groups that have it as parent keep their parent field
DeleteGroup(g) ==
  /\ ~Crashed
  /\ nops < MaxStoreOps
  /\ IsValidID(store, g)
  /\ store' = [store EXCEPT ![g] = NoGroup]
  /\ pending' = IF store[g].owner = window_number
                  THEN pending \cup {store[g].vehicle_type} ELSE pending
  /\ nops' = nops + 1
  /\ SetWin([Win EXCEPT !.dangling =
               dangling \cup { x \in {g} : \E i \in 1 .. Len(groups) : groups[i] = x }])
  /\ UNCHANGED <<used_liveries, liveries, window_number, last, colour_state, dropdown>>

\* another set of NewGRFs is loaded: the schemes in use change
SetUsedLiveries(m) ==
  /\ ~Crashed
  /\ nops < MaxConfigOps
  /\ m # used_liveries
  /\ used_liveries' = m
  /\ pending' = pending \cup {-1}
  /\ nops' = nops + 1
  /\ UNCHANGED <<store, liveries, window_number, livery_class, sel, rows, groups,
                 indents, need_rebuild, lowered, class_disabled, dd_disabled, dangling,
                 last, colour_state, dropdown>>

\* the livery display setting is changed
SetLiveriesSetting(v) ==
  /\ ~Crashed
  /\ nops < MaxConfigOps
  /\ v # liveries
  /\ liveries' = v
  /\ pending' = pending \cup {-1}
  /\ nops' = nops + 1
  /\ UNCHANGED <<store, used_liveries, window_number, livery_class, sel, rows, groups,
                 indents, need_rebuild, lowered, class_disabled, dd_disabled, dangling,
                 last, colour_state, dropdown>>

(* ------------------------------------------------------------------ *)
(* The window's events                                                 *)
(* ------------------------------------------------------------------ *)

env ==
  <<store, used_liveries, liveries, nops, window_number, colours, company_livery,
    group_livery, commands, ncommits>>

\* ClassSwitch: a click on the (enabled) class button of livery class c
ClassSwitch(c) ==
  /\ ~Crashed
  /\ c \notin class_disabled
  /\ SetWin(OnClickClass(Win, store, used_liveries, window_number, c))
  /\ last' = [op |-> "ClassSwitch", a |-> c, r |-> FALSE]
  /\ dropdown' = Closed
  /\ UNCHANGED <<env, pending>>

\* the rows GetScrolledRowFromWidget can return: a row below the scrollbar's count,
\* or INT_MAX for a click below the last row
RowInputs == (0 .. (rows - 1)) \cup {INT_MAX}

\* RowClick: a click on the matrix that lands on row
RowClick(row, ctrl) ==
  /\ ~Crashed
  /\ IF row >= rows THEN
       /\ SetWin(Win)
       /\ last' = last
     ELSE IF livery_class < LC_GROUP_RAIL
             /\ RowToScheme(livery_class, used_liveries, row) >= LS_END THEN
       \* assert(j < LS_END) fails, or, in a build without assertions, is not made
       \/ /\ SetWin(Win)
          /\ last' = [op |-> "AssertionFailed", a |-> row, r |-> FALSE]
       \/ /\ SetWin(OnClickMatrix(Win, used_liveries, row, ctrl, INVALID_GROUP))
          /\ last' = [op |-> "RowClickNoAssert", a |-> row, r |-> FALSE]
     ELSE
       /\ \E idx \in (IF livery_class < LC_GROUP_RAIL THEN {INVALID_GROUP}
                      ELSE ReadIndex(Win, store, row)) :
            SetWin(OnClickMatrix(Win, used_liveries, row, ctrl, idx))
       /\ last' = [op |-> IF ctrl /\ livery_class < LC_GROUP_RAIL
                            THEN "RowClickCtrl" ELSE "RowClick",
                   a |-> row, r |-> FALSE]
  /\ dropdown' = Closed
  /\ UNCHANGED <<env, pending>>

\* ExternalInvalidate / general invalidation: a scheduled invalidation is delivered
\* in GUI scope
DeliverInvalidate(data) ==
  /\ ~Crashed
  /\ data \in pending
  /\ pending' = pending \ {data}
  /\ SetWin(OnInvalidateData(Win, store, used_liveries, liveries, window_number,
                             data, TRUE))
  /\ last' = [op |-> "OnInvalidateData", a |-> data, r |-> sel' # sel]
  /\ UNCHANGED <<env, dropdown>>

\* a scheduled invalidation is announced to the window outside GUI scope, at the
\* time it is scheduled or later; it stays scheduled
NotifyInvalidate(data) ==
  /\ ~Crashed
  /\ data \in pending
  /\ SetWin(OnInvalidateData(Win, store, used_liveries, liveries, window_number,
                             data, FALSE))
  /\ last' = [op |-> "OnInvalidateDataNoGui", a |-> data, r |-> sel' # sel]
  /\ UNCHANGED <<env, pending, dropdown>>

\* ShowCompanyLiveryWindow(company, group) while the window is open
ShowForGroup(group) ==
  /\ ~Crashed
  /\ IsValidID(store, group)
  /\ store[group].owner = window_number
  /\ SetWin(SetSelectedGroup(Win, store, used_liveries, window_number, group))
  /\ last' = [op |-> "SetSelectedGroup", a |-> group, r |-> FALSE]
  /\ dropdown' = Closed
  /\ UNCHANGED <<env, pending>>

\* the window is closed and ShowCompanyLiveryWindow(company, group) opens a new one
NewWindow(group) ==
  /\ ~Crashed
  /\ \/ group = INVALID_GROUP
     \/ IsValidID(store, group) /\ store[group].owner = window_number
  /\ SetWin(Construct(store, used_liveries, liveries, window_number, group))
  /\ pending' = {}
  /\ last' = [op |-> "Construct", a |-> group, r |-> FALSE]
  /\ dropdown' = Closed
  /\ UNCHANGED env

\* the window is painted
Paint ==
  /\ ~Crashed
  /\ SetWin(OnPaint(Win, store, window_number))
  /\ UNCHANGED <<env, pending, last, dropdown>>

\* the liveries a read through a pointer to no group may find
StrayLiveries == { Liv(0, 0, 0), Liv(3, 7, 8) }

\* DropdownClick: a click on the primary or the secondary colour button, which the
\* last paint left enabled and which shows the state the window is in
DropdownClick(primary) ==
  /\ ~Crashed
  /\ ~dd_disabled
  /\ OnPaint(Win, store, window_number) = Win
  /\ IF livery_class >= LC_GROUP_RAIL /\ ~GroupReadable(Win, store) THEN
       \* Group::Get of an id that names no group: the access faults, or reads
       \* whatever is there
       \/ /\ dropdown' = Closed
          /\ last' = [op |-> "InvalidPointer", a |-> sel, r |-> FALSE]
       \/ /\ \E l \in (IF IsValidID(store, sel) THEN {group_livery[sel]}
                       ELSE StrayLiveries),
                d \in StrayLiveries :
               dropdown' = ShowColourDropDownMenu(
                             Win, colours, [livery |-> l, default_livery |-> <<d>>],
                             primary)
          /\ last' = [op |-> "ShowColourDropDownMenu", a |-> IF primary THEN 1 ELSE 2,
                      r |-> FALSE]
     ELSE
       /\ dropdown' = ShowColourDropDownMenu(
                        Win, colours,
                        LiveriesRead(Win, store, company_livery, group_livery), primary)
       /\ last' = [op |-> "ShowColourDropDownMenu", a |-> IF primary THEN 1 ELSE 2,
                   r |-> FALSE]
  /\ SetWin(Win)
  /\ UNCHANGED <<env, pending>>

\* a click on a colour button of a window that has not been painted since it was
\* made or changed: the button is as the last paint, or the constructor, left it
EarlyDropdownClick(primary) ==
  /\ ~Crashed
  /\ ~dd_disabled
  /\ OnPaint(Win, store, window_number) # Win
  /\ IF livery_class >= LC_GROUP_RAIL /\ ~GroupReadable(Win, store) THEN
       \/ /\ dropdown' = Closed
          /\ last' = [op |-> "InvalidPointer", a |-> sel, r |-> FALSE]
       \/ /\ \E l \in (IF IsValidID(store, sel) THEN {group_livery[sel]}
                       ELSE StrayLiveries),
                d \in StrayLiveries :
               dropdown' = ShowColourDropDownMenu(
                             Win, colours, [livery |-> l, default_livery |-> <<d>>],
                             primary)
          /\ last' = [op |-> "ShowColourDropDownMenu", a |-> IF primary THEN 1 ELSE 2,
                      r |-> FALSE]
     ELSE
       /\ dropdown' = ShowColourDropDownMenu(
                        Win, colours,
                        LiveriesRead(Win, store, company_livery, group_livery), primary)
       /\ last' = [op |-> "ShowColourDropDownMenu", a |-> IF primary THEN 1 ELSE 2,
                   r |-> FALSE]
  /\ SetWin(Win)
  /\ UNCHANGED <<env, pending>>

\* a click on entry i of dropdown dd chooses any entry, masked or not
GetDropDownItemUnmasked(dd, i) == <<dd.list[i].result>>

\* a click on entry i of dropdown dd: the result of the entry chosen, <<>> if the
\* entry is masked and nothing is chosen
GetDropDownItem(dd, i) == IF dd.list[i].masked THEN <<>> ELSE <<dd.list[i].result>>

\* the results of the entries of the open dropdown that can be chosen
Selectable ==
  { GetDropDownItem(dropdown, i)[1] :
      i \in { k \in 1 .. Len(dropdown.list) : GetDropDownItem(dropdown, k) # <<>> } }

\* a click on entry i of the open dropdown that chooses nothing: the dropdown stays
\* open and no handler of the window is called
MaskedClick(i) ==
  /\ ~Crashed
  /\ dropdown.open
  /\ i \in 1 .. Len(dropdown.list)
  /\ GetDropDownItem(dropdown, i) = <<>>
  /\ last' = [op |-> "NothingChosen", a |-> dropdown.list[i].result, r |-> FALSE]
  /\ SetWin(Win)
  /\ UNCHANGED <<env, pending, dropdown>>

\* the palette entries a run chooses from; the entry of the default is chosen too
ColourInputs == { 5 } \cup (COLOUR_END .. (2 * COLOUR_END - 1))

\* fields of the window after OnDropdownSelect: the handler assigns none
AfterDropdownSelectCleared(w) == [w EXCEPT !.sel = 0]

AfterDropdownSelect(w) == w

\* ColourCommit: an entry of the open dropdown is chosen
ColourCommit(index, ctrl) ==
  /\ ~Crashed
  /\ dropdown.open
  /\ commands = <<>>
  /\ ncommits < MaxCommits
  /\ index \in Selectable
  /\ commands' = commands \o OnDropdownSelect(Win, used_liveries, window_number,
                                              dropdown.primary, index, ctrl)
  /\ ncommits' = ncommits + 1
  /\ dropdown' = Closed
  /\ SetWin(AfterDropdownSelect(Win))
  /\ last' = [op |-> IF ctrl THEN "OnDropdownSelectCtrl" ELSE "OnDropdownSelect",
              a |-> index, r |-> FALSE]
  /\ UNCHANGED <<store, used_liveries, liveries, nops, window_number, colours,
                 company_livery, group_livery, pending>>

\* a livery after one of its colours is set; INVALID_COLOUR clears the in_use bit and
\* takes the colour of the default
SetColour(livery, default_livery, primary, colour, keep_in_use) ==
  LET bit == IF primary THEN 0 ELSE 1
      in_use == IF keep_in_use THEN livery.in_use
                ELSE IF colour # INVALID_COLOUR THEN SetBit(livery.in_use, bit)
                ELSE ClrBit(livery.in_use, bit)
      col == IF colour = INVALID_COLOUR THEN ColourOf(default_livery, primary) ELSE colour
  IN IF primary THEN [livery EXCEPT !.in_use = in_use, !.colour1 = col]
     ELSE [livery EXCEPT !.in_use = in_use, !.colour2 = col]

\* the livery a group inherits: its parent's, or the company's default
ParentLivery(st, clivery, glivery, g) ==
  IF IsValidID(st, st[g].parent) THEN glivery[st[g].parent] ELSE clivery[LS_DEFAULT]

\* the authority executes the oldest posted command for the local company; a
\* command it refuses changes nothing
ExecuteCommand ==
  /\ ~Crashed
  /\ commands # <<>>
  /\ commands' = Tail(commands)
  /\ LET c == Head(commands) IN
       IF c.cmd = "CMD_SET_COMPANY_COLOUR" THEN
         IF \/ c.target = LS_DEFAULT /\ c.colour = INVALID_COLOUR
            \/ /\ c.target = LS_DEFAULT
               /\ c.primary
               /\ \E o \in AllCompanies \ {_local_company} : colours[o] = c.colour
         THEN UNCHANGED <<colours, company_livery, group_livery>>
         ELSE
           /\ company_livery' =
                [company_livery EXCEPT ![c.target] =
                   SetColour(@, company_livery[LS_DEFAULT], c.primary, c.colour,
                             c.target = LS_DEFAULT)]
           /\ colours' = IF c.target = LS_DEFAULT /\ c.primary
                           THEN [colours EXCEPT ![_local_company] = c.colour]
                           ELSE colours
           /\ UNCHANGED group_livery
       ELSE
         IF ~IsValidID(store, c.target) \/ store[c.target].owner # _local_company
         THEN UNCHANGED <<colours, company_livery, group_livery>>
         ELSE
           /\ group_livery' =
                [group_livery EXCEPT ![c.target] =
                   SetColour(@, ParentLivery(store, company_livery, group_livery,
                                             c.target),
                             c.primary, c.colour, FALSE)]
           /\ UNCHANGED <<colours, company_livery>>
  /\ SetWin(Win)
  /\ UNCHANGED <<store, used_liveries, liveries, nops, window_number, pending, ncommits,
                 dropdown, last>>

(* ------------------------------------------------------------------ *)
(* The specifications                                                  *)
(* ------------------------------------------------------------------ *)

\* the window as its constructor leaves it, opened with no group
InitWindow ==
  \E w \in {Construct(store, used_liveries, liveries, window_number, INVALID_GROUP)} :
    /\ livery_class = w.livery_class
    /\ sel = w.sel
    /\ rows = w.rows
    /\ groups = w.groups
    /\ indents = w.indents
    /\ need_rebuild = w.need_rebuild
    /\ lowered = w.lowered
    /\ class_disabled = w.class_disabled
    /\ dd_disabled = w.dd_disabled
    /\ dangling = w.dangling

\* every company has its own colour, no scheme or group has a livery of its own, and
\* no colour dropdown is open
InitColours ==
  /\ colours = [c \in AllCompanies |-> c + 1]
  /\ company_livery = [s \in 0 .. (LS_END - 1) |->
                         Liv(IF s = LS_DEFAULT THEN 3 ELSE 0, window_number + 1, 0)]
  /\ group_livery = [g \in DOMAIN store |-> Liv(0, window_number + 1, 0)]
  /\ commands = <<>>
  /\ ncommits = 0
  /\ dropdown = Closed

\* a window is opened on a store with groups; steam and electric engines are in use
Init ==
  /\ store \in InitStores
  /\ used_liveries = MaskOf({0, 1, 3})
  /\ liveries = LIT_ALL
  /\ pending = {}
  /\ nops = 0
  /\ window_number \in Companies
  /\ InitWindow
  /\ InitColours
  /\ last = [op |-> "Construct", a |-> INVALID_GROUP, r |-> FALSE]

\* a window is opened under any of the scheme configurations
InitSchemes ==
  /\ store \in SchemeStores
  /\ used_liveries \in UsedChoices
  /\ liveries = LIT_ALL
  /\ pending = {}
  /\ nops = 0
  /\ window_number \in Companies
  /\ InitWindow
  /\ InitColours
  /\ last = [op |-> "Construct", a |-> INVALID_GROUP, r |-> FALSE]

\* the window with a group store that changes
Next ==
  \/ \E k \in GroupKinds, p \in (DOMAIN store) \cup {INVALID_GROUP} :
       CreateGroup(k.owner, k.vehicle_type, p, k.name)
  \/ \E g \in DOMAIN store : DeleteGroup(g)
  \/ \E c \in LiveryClasses : ClassSwitch(c)
  \/ \E r \in RowInputs, ctrl \in BOOLEAN : RowClick(r, ctrl)
  \/ \E d \in pending : DeliverInvalidate(d)
  \/ \E g \in DOMAIN store : ShowForGroup(g)
  \/ \E g \in (DOMAIN store) \cup {INVALID_GROUP} : NewWindow(g)
  \/ Paint

Spec == Init /\ [][Next]_vars

\* the window with loaded schemes and a livery setting that change
NextSchemes ==
  \/ \E m \in UsedChoices : SetUsedLiveries(m)
  \/ \E v \in {LIT_NONE, LIT_COMPANY, LIT_ALL} : SetLiveriesSetting(v)
  \/ \E c \in LiveryClasses : ClassSwitch(c)
  \/ \E r \in RowInputs, ctrl \in BOOLEAN : RowClick(r, ctrl)
  \/ \E d \in pending : DeliverInvalidate(d)
  \/ \E g \in DOMAIN store : ShowForGroup(g)
  \/ \E g \in (DOMAIN store) \cup {INVALID_GROUP} : NewWindow(g)
  \/ Paint

SpecSchemes == InitSchemes /\ [][NextSchemes]_vars

\* the store a run of SpecColours and of SpecGroupColours starts from: a train group
\* of the local company with a group under it
ColourStore ==
  StoreOf(GroupIds, <<Grp(0, VEH_TRAIN, INVALID_GROUP, <<66>>),
                      Grp(0, VEH_TRAIN, 0, <<97>>)>>)

\* the classes a run of SpecColours switches to
ColourClasses == { LC_OTHER, 1, LC_GROUP_RAIL }

\* a window is opened for a company whose colours can be changed
InitColourWindow ==
  /\ store = ColourStore
  /\ used_liveries = MaskOf({0, 1, 3})
  /\ liveries = LIT_ALL
  /\ pending = {}
  /\ nops = 0
  /\ window_number \in Companies
  /\ InitWindow
  /\ InitColours
  /\ last = [op |-> "Construct", a |-> INVALID_GROUP, r |-> FALSE]

\* the window with its colour dropdowns, and the authority that executes the commands
NextColours ==
  \/ \E c \in ColourClasses : ClassSwitch(c)
  \/ \E r \in RowInputs, ctrl \in BOOLEAN : RowClick(r, ctrl)
  \/ Paint
  \/ \E primary \in BOOLEAN : DropdownClick(primary)
  \/ \E index \in ColourInputs, ctrl \in BOOLEAN : ColourCommit(index, ctrl)
  \/ ExecuteCommand

SpecColours == InitColourWindow /\ [][NextColours]_vars

\* the window of the local or of another company, with clicks that arrive before
\* the window is painted
NextForeign ==
  \/ \E c \in ColourClasses : ClassSwitch(c)
  \/ \E r \in RowInputs, ctrl \in BOOLEAN : RowClick(r, ctrl)
  \/ Paint
  \/ \E primary \in BOOLEAN : DropdownClick(primary)
  \/ \E primary \in BOOLEAN : EarlyDropdownClick(primary)
  \/ \E index \in ColourInputs, ctrl \in BOOLEAN : ColourCommit(index, ctrl)
  \/ ExecuteCommand

SpecForeign == InitColourWindow /\ [][NextForeign]_vars

\* a window is opened for a company with one train group, or with two
InitGroupColourWindow ==
  /\ store \in { ColourStore,
                  StoreOf(GroupIds, <<Grp(0, VEH_TRAIN, INVALID_GROUP, <<66>>)>>) }
  /\ used_liveries = MaskOf({0, 1, 3})
  /\ liveries = LIT_ALL
  /\ pending = {}
  /\ nops = 0
  /\ window_number \in Companies
  /\ InitWindow
  /\ InitColours
  /\ last = [op |-> "Construct", a |-> INVALID_GROUP, r |-> FALSE]

\* the window in the class of the train groups, with groups that are deleted
NextGroupColours ==
  \/ \E g \in DOMAIN store : DeleteGroup(g)
  \/ ClassSwitch(LC_GROUP_RAIL)
  \/ \E r \in RowInputs, ctrl \in BOOLEAN : RowClick(r, ctrl)
  \/ \E d \in pending : DeliverInvalidate(d)
  \/ Paint
  \/ \E primary \in BOOLEAN : DropdownClick(primary)
  \/ \E index \in ColourInputs, ctrl \in BOOLEAN : ColourCommit(index, ctrl)
  \/ ExecuteCommand

SpecGroupColours == InitGroupColourWindow /\ [][NextGroupColours]_vars

\* the colours the companies start a run of SpecDropdown with: all different, or
\* the local company's shared by another
DropdownColours ==
  { [c \in AllCompanies |-> c + 1],
    [c \in AllCompanies |-> IF c = _local_company THEN 2 ELSE c + 1] }

\* the liveries a scheme or group other than the default starts with: not in use,
\* one colour in use, or both
DropdownLiveries == { Liv(0, 1, 6), Liv(1, 5, 6), Liv(2, 1, 7), Liv(3, 5, 7) }

\* the local company's window is opened on liveries drawn from bounded sets: the
\* steam scheme's, the root group's and its child's, and the in_use bits of the
\* default scheme
InitDropdown ==
  /\ store = ColourStore
  /\ used_liveries = MaskOf({0, 1, 3})
  /\ liveries = LIT_ALL
  /\ pending = {}
  /\ nops = 0
  /\ window_number = _local_company
  /\ InitWindow
  /\ colours \in DropdownColours
  /\ \E steam \in DropdownLiveries, default_in_use \in {0, 3} :
       company_livery = [s \in 0 .. (LS_END - 1) |->
                           IF s = LS_DEFAULT THEN Liv(default_in_use, colours[_local_company], 8)
                           ELSE IF s = 1 THEN steam
                           ELSE Liv(0, colours[_local_company], 8)]
  /\ group_livery \in [DOMAIN store -> { Liv(0, 3, 9), Liv(1, 4, 9), Liv(2, 3, 10) }]
  /\ commands = <<>>
  /\ ncommits = 0
  /\ dropdown = Closed
  /\ last = [op |-> "Construct", a |-> INVALID_GROUP, r |-> FALSE]

\* the entries a run of SpecDropdown clicks on: the first four of the list
EntryInputs == 1 .. 4

\* no colour has been chosen yet: a run of SpecDropdown ends with its first choice,
\* the liveries a later choice would meet being among those a run starts from
Choosing == ncommits = 0

\* the window with its colour dropdowns, whose entries are clicked on
NextDropdown ==
  \/ Choosing /\ \E c \in ColourClasses : ClassSwitch(c)
  \/ Choosing /\ \E r \in RowInputs, ctrl \in BOOLEAN : RowClick(r, ctrl)
  \/ Choosing /\ Paint
  \/ Choosing /\ \E primary \in BOOLEAN : DropdownClick(primary)
  \/ Choosing /\ \E i \in EntryInputs : MaskedClick(i)
  \/ \E i \in EntryInputs, ctrl \in BOOLEAN :
       /\ dropdown.open
       /\ GetDropDownItem(dropdown, i) # <<>>
       /\ ColourCommit(GetDropDownItem(dropdown, i)[1], ctrl)

SpecDropdown == InitDropdown /\ [][NextDropdown]_vars

(* ------------------------------------------------------------------ *)
(* The flattener on stores drawn from bounded sets                     *)
(* ------------------------------------------------------------------ *)

NameZeta == <<90, 101, 116, 97>>
NameAlpha == <<65, 108, 112, 104, 97>>
NameAlphaLower == <<97, 108, 112, 104, 97>>
NameMid == <<77, 105, 100>>
NameG9 == <<71, 57>>
NameG10 == <<71, 49, 48>>
\* a name that fills the name buffer and one byte more: 63 times "a", then c
LongName(c) == [i \in 1 .. NameBufSize |-> IF i < NameBufSize THEN 97 ELSE c]

FlatNames ==
  { NameZeta, NameAlpha, NameAlphaLower, NameMid, NameG9, NameG10,
    LongName(98), LongName(121) }

\* a pool slot of the hierarchy family: free; a group of another company or of
\* another vehicle type; or a train group "Mid" of company 0 under any parent
HierarchySlots ==
  { NoGroup,
    [valid |-> TRUE, owner |-> 1, vehicle_type |-> VEH_TRAIN, parent |-> INVALID_GROUP,
     name |-> NameMid],
    [valid |-> TRUE, owner |-> 0, vehicle_type |-> VEH_ROAD, parent |-> INVALID_GROUP,
     name |-> NameMid] }
  \cup { [valid |-> TRUE, owner |-> 0, vehicle_type |-> VEH_TRAIN, parent |-> p,
          name |-> NameMid] : p \in FlatGroupIds \cup {INVALID_GROUP} }

\* a pool slot of the naming family: a train group of company 0 with any of the
\* names, a root in slots 0 and 1, a root or a child of group 1 in the other slots
NamingSlots(g) ==
  { [valid |-> TRUE, owner |-> 0, vehicle_type |-> VEH_TRAIN, parent |-> p, name |-> n] :
      p \in (IF g < 2 THEN {INVALID_GROUP} ELSE {INVALID_GROUP, 1}), n \in FlatNames }

FlattenStores ==
  [FlatGroupIds -> HierarchySlots]
    \cup { st \in [FlatGroupIds -> UNION { NamingSlots(g) : g \in FlatGroupIds }] :
             \A g \in FlatGroupIds : st[g] \in NamingSlots(g) }

InitFlatten ==
  /\ store \in FlattenStores
  /\ used_liveries = MaskOf({0, 1, 3})
  /\ liveries = LIT_ALL
  /\ pending = {}
  /\ nops = 0
  /\ window_number = 0
  /\ InitWindow
  /\ InitColours
  /\ last = [op |-> "Construct", a |-> INVALID_GROUP, r |-> FALSE]

\* the window is switched to the group classes: each switch runs the flattener
NextFlatten == \E c \in GroupClasses : ClassSwitch(c)

SpecFlatten == InitFlatten /\ [][NextFlatten]_vars

(* ------------------------------------------------------------------ *)
(* Invalidations: announced outside GUI scope, delivered inside it     *)
(* ------------------------------------------------------------------ *)

\* the window of company 0 on a store and a set of schemes that change, in any class
InitInvalidate ==
  /\ store \in InitStores
  /\ used_liveries \in { MaskOf({0}), MaskOf({0, 1, 3}) }
  /\ liveries = LIT_ALL
  /\ pending = {}
  /\ nops = 0
  /\ window_number = 0
  /\ InitWindow
  /\ InitColours
  /\ last = [op |-> "Construct", a |-> INVALID_GROUP, r |-> FALSE]

NextInvalidate ==
  \/ \E k \in GroupKinds, p \in (DOMAIN store) \cup {INVALID_GROUP} :
       CreateGroup(k.owner, k.vehicle_type, p, k.name)
  \/ \E g \in DOMAIN store : DeleteGroup(g)
  \/ \E m \in UsedChoices : SetUsedLiveries(m)
  \/ \E c \in LiveryClasses : ClassSwitch(c)
  \/ \E d \in pending : DeliverInvalidate(d)
  \/ \E d \in pending : NotifyInvalidate(d)

SpecInvalidate == InitInvalidate /\ [][NextInvalidate]_vars

(* ------------------------------------------------------------------ *)
(* Vocabulary of the properties                                        *)
(* ------------------------------------------------------------------ *)

InGroupClass == livery_class >= LC_GROUP_RAIL
InSchemeClass == livery_class < LC_GROUP_RAIL

\* the vehicle type the current group class shows
ClassVehicleType == livery_class - LC_GROUP_RAIL

\* the records of the store that match the window's filter
Matching ==
  { g \in DOMAIN store :
      /\ store[g].valid
      /\ store[g].owner = window_number
      /\ store[g].vehicle_type = ClassVehicleType }

\* the groups emitted into the flattened list
Emitted == { groups[i] : i \in 1 .. Len(groups) }

\* a is reached from g by following parent links (at most fuel of them)
RECURSIVE IsUnder(_, _, _)
IsUnder(g, a, fuel) ==
  /\ fuel > 0
  /\ g \in DOMAIN store
  /\ \/ store[g].parent = a
     \/ IsUnder(store[g].parent, a, fuel - 1)

Descends(g, a) == IsUnder(g, a, Cardinality(DOMAIN store))

\* matching records whose parent is neither ROOT nor a matching record
Orphans ==
  { g \in Matching : store[g].parent # INVALID_GROUP /\ store[g].parent \notin Matching }

\* matching records from which parent links through matching records lead to ROOT
RECURSIVE ReachesRoot(_, _)
ReachesRoot(g, fuel) ==
  /\ fuel > 0
  /\ g \in Matching
  /\ \/ store[g].parent = INVALID_GROUP
     \/ ReachesRoot(store[g].parent, fuel - 1)

Rooted == { g \in Matching : ReachesRoot(g, Cardinality(DOMAIN store)) }

(* ------------------------------------------------------------------ *)
(* Properties of the flattener (checked under SpecFlatten, where the   *)
(* list of a group class is that of the current store)                 *)
(* ------------------------------------------------------------------ *)

\* C2: the flattened list is a preorder traversal: every emitted group whose
\* parent is not ROOT comes after its parent, and the descendants of a group
\* follow it contiguously, before its next sibling.
C2_Preorder ==
  InGroupClass =>
    /\ \A i \in 1 .. Len(groups) :
         store[groups[i]].parent # INVALID_GROUP =>
           \E j \in 1 .. (i - 1) : groups[j] = store[groups[i]].parent
    /\ \A i, j, k \in 1 .. Len(groups) :
         (i < k /\ k < j /\ Descends(groups[j], groups[i])) =>
           Descends(groups[k], groups[i])

\* a list in which a root and its child are followed by a second root
C2_Witness ==
  /\ InGroupClass
  /\ indents = <<0, 1, 0>>

\* C3: the children of one parent (and the roots) are in non-decreasing order of
\* display name under the natural-order comparator, equal names in ascending id;
\* A(ROOT,"Zeta"), B(ROOT,"Alpha"), C(parent=B,"Mid") flattens to [B@0, C@1, A@0].
C3_SiblingOrder ==
  InGroupClass =>
    /\ \A i, j \in 1 .. Len(groups) :
         (i < j /\ store[groups[i]].parent = store[groups[j]].parent) =>
           LET r == strnatcmp(store[groups[i]].name, store[groups[j]].name)
           IN r < 0 \/ (r = 0 /\ groups[i] < groups[j])
    /\ ( /\ livery_class = LC_GROUP_RAIL
         /\ store[0] = [valid |-> TRUE, owner |-> 0, vehicle_type |-> VEH_TRAIN,
                        parent |-> INVALID_GROUP, name |-> NameZeta]
         /\ store[1] = [valid |-> TRUE, owner |-> 0, vehicle_type |-> VEH_TRAIN,
                        parent |-> INVALID_GROUP, name |-> NameAlpha]
         /\ store[2] = [valid |-> TRUE, owner |-> 0, vehicle_type |-> VEH_TRAIN,
                        parent |-> 1, name |-> NameMid]
         /\ \A g \in DOMAIN store : g > 2 => ~store[g].valid )
       => (groups = <<1, 2, 0>> /\ indents = <<0, 1, 0>>)

\* C4: the length of the flattened list is the number of matching records minus
\* the number of orphans among them.
C4_LengthMinusOrphans ==
  InGroupClass => Len(groups) = Cardinality(Matching) - Cardinality(Orphans)

\* C4 as amended: the length of the flattened list is the number of matching
\* records from which parent links through matching records lead to ROOT (the
\* orphans, their descendants and the groups on parent cycles are not counted),
\* and every such record is emitted exactly once.
C4_LengthRooted ==
  InGroupClass =>
    /\ Len(groups) = Cardinality(Rooted)
    /\ Emitted = Rooted

\* an orphan that has a matching child, which the list leaves out as well
C4_Witness ==
  /\ InGroupClass
  /\ \E o \in Orphans : \E g \in Matching : store[g].parent = o

\* C5: a matching record whose parent is neither ROOT nor a matching record is
\* never emitted; the rebuild completes (the list is built and no longer dirty).
C5_OrphanNeverEmitted ==
  InGroupClass =>
    /\ \A g \in Orphans : g \notin Emitted
    /\ ~need_rebuild
    /\ rows = Len(groups)
    /\ Len(indents) = Len(groups)

\* an orphan is left out of a list that shows another group
C5_Witness ==
  /\ InGroupClass
  /\ Orphans # {}
  /\ Len(groups) >= 1

(* ------------------------------------------------------------------ *)
(* Properties of the window's events                                   *)
(* ------------------------------------------------------------------ *)

\* this step is the class switch to c (the record of the event is compared first)
SwitchesTo(c) == last'.op = "ClassSwitch" /\ last'.a = c /\ ClassSwitch(c)

\* this step handles the invalidation for vehicle type t in the group class of t
RebuildsFor(t) ==
  /\ livery_class = GroupClassOf(t)
  /\ last'.op = "OnInvalidateData"
  /\ last'.a = t
  /\ DeliverInvalidate(t)

\* the selection the fallback makes on a list: its first entry, or none
FirstOrNone(list) == IF Len(list) > 0 THEN list[1] ELSE INVALID_GROUP

\* the selected group is an orphan: it exists, and its parent is a group that was deleted
SelIsOrphan ==
  /\ IsValidID(store, sel)
  /\ store[sel].parent # INVALID_GROUP
  /\ ~IsValidID(store, store[sel].parent)

\* C1: selection invariant. In a scheme class every bit set in the selection is a
\* scheme of the current class that is in use; in a group class the selection is
\* INVALID_GROUP or the id of a group in the window's flattened list. Stated for the
\* states in which every scheduled invalidation has been delivered and the list
\* holds no deleted group.
C1_SelectionInvariant ==
  (~Crashed /\ pending = {} /\ dangling = {}) =>
    /\ InSchemeClass =>
         \A s \in BitsOf(sel) : LiveryClassOf(s) = livery_class /\ HasBit(used_liveries, s)
    /\ InGroupClass => (sel = INVALID_GROUP \/ sel \in Emitted)

\* C6: when the invalidation for the current group class is handled and the
\* selected group has become an orphan, the selection becomes the first entry of
\* the rebuilt list, or INVALID_GROUP when that list is empty.
C6_OrphanFallback ==
  [][ \A t \in VehicleTypes :
        (RebuildsFor(t) /\ SelIsOrphan)
          => sel' = FirstOrNone(groups') ]_vars

\* C7: the invalidation for vehicle type t, handled while the class is the group
\* class of t, leaves the list, the indents and the row count those of the
\* flattening of the current store for the window's company and t; and when the
\* selected id is not the id of a group of the store, the selection becomes the
\* first row's id, or INVALID_GROUP when the rebuilt list is empty.
C7_InvalidateRebuilds ==
  [][ \A t \in VehicleTypes :
        RebuildsFor(t) =>
          /\ groups' = FlatGroups(store, window_number, t)
          /\ indents' = FlatIndents(store, window_number, t)
          /\ rows' = Len(FlatGroups(store, window_number, t))
          /\ ~need_rebuild'
          /\ livery_class' = livery_class
          /\ (~IsValidID(store, sel) => sel' = FirstOrNone(groups')) ]_vars

\* the selected group was deleted, and the invalidation moved the selection to the
\* first row of the rebuilt list
C7_Witness ==
  /\ last.op = "OnInvalidateData"
  /\ last.r
  /\ InGroupClass
  /\ last.a = ClassVehicleType
  /\ nops > 0
  /\ groups = FlatGroups(store, window_number, ClassVehicleType)
  /\ Len(groups) > 0
  /\ sel = groups[1]

\* C8: the selection persists across rebuilds: if the selected group is in the list
\* the invalidation rebuilds, the event leaves the selection unchanged; a selection
\* that the event replaces was not in the rebuilt list, and is replaced by the first
\* entry, or INVALID_GROUP.
C8_SelectionPersists ==
  [][ \A t \in VehicleTypes :
        RebuildsFor(t) =>
          /\ (\E i \in 1 .. Len(groups') : groups'[i] = sel) => sel' = sel
          /\ sel' # sel =>
               /\ \A i \in 1 .. Len(groups') : groups'[i] # sel
               /\ sel' = FirstOrNone(groups') ]_vars

\* the store changed, the list was rebuilt with the selected group (not its first
\* row) still in it, and the selection was kept
C8_Witness ==
  /\ last.op = "OnInvalidateData"
  /\ ~last.r
  /\ InGroupClass
  /\ last.a = ClassVehicleType
  /\ nops > 0
  /\ pending = {}
  /\ Len(groups) > 1
  /\ sel = groups[2]

\* C9: a switch to scheme class c selects exactly the first scheme, in enum order,
\* that belongs to c and is in use, and selects nothing when no scheme of c is in
\* use; in that case the row count is 0, the next paint disables the colour
\* dropdowns, and no later step fails an assertion while the class stays empty.
C9_SchemeClassSwitch ==
  [][ /\ \A c \in SchemeClasses :
           SwitchesTo(c) =>
             LET act == { s \in Schemes : _livery_class[s + 1] = c /\ HasBit(used_liveries, s) }
             IN /\ livery_class' = c
                /\ act # {} => \E s \in act : sel' = Pow2(s) /\ \A u \in act : s <= u
                /\ act = {} => (sel' = 0 /\ rows' = 0)
                /\ ~Crashed'
      /\ (Paint /\ InSchemeClass /\ sel = 0) => dd_disabled'
      /\ (InSchemeClass /\ sel = 0 /\ rows = 0) => ~Crashed' ]_vars

\* the local company's window has switched to a class of which no scheme is in
\* use: nothing is selected, there are no rows, and the paint disabled the dropdowns
C9_Witness ==
  /\ last.op = "ClassSwitch"
  /\ last.a = livery_class
  /\ InSchemeClass
  /\ window_number = _local_company
  /\ ActiveSchemes(livery_class, used_liveries) = {}
  /\ sel = 0
  /\ rows = 0
  /\ dd_disabled

\* C10: a switch to a group class leaves the list, the indents and the row count
\* those of the flattening of the current store for the class's vehicle type, whatever
\* list was held before, and selects the first row's id, or INVALID_GROUP when
\* the list is empty.
C10_GroupClassSwitch ==
  [][ \A c \in GroupClasses :
        SwitchesTo(c) =>
          /\ livery_class' = c
          /\ groups' = FlatGroups(store, window_number, c - LC_GROUP_RAIL)
          /\ indents' = FlatIndents(store, window_number, c - LC_GROUP_RAIL)
          /\ rows' = Len(groups')
          /\ sel' = FirstOrNone(groups') ]_vars

\* the class was switched to itself after the store changed and before the
\* invalidation was delivered: the list is the current one and its first row is selected
C10_Witness ==
  /\ last.op = "ClassSwitch"
  /\ last.a = livery_class
  /\ InGroupClass
  /\ nops > 0
  /\ ClassVehicleType \in pending
  /\ groups = FlatGroups(store, window_number, ClassVehicleType)
  /\ Len(groups) > 0
  /\ sel = groups[1]

(* ------------------------------------------------------------------ *)
(* Properties of the clicks on the matrix                              *)
(* ------------------------------------------------------------------ *)

\* DrawWidget in a scheme class, without the scrolling: the schemes drawn on rows
\* 0, 1, ...: those of class c that are in use, in enum order, from scheme on
RECURSIVE DrawnFrom(_, _, _)
DrawnFrom(c, used, scheme) ==
  IF scheme >= LS_END THEN <<>>
  ELSE IF _livery_class[scheme + 1] = c /\ HasBit(used, scheme)
    THEN <<scheme>> \o DrawnFrom(c, used, scheme + 1)
    ELSE DrawnFrom(c, used, scheme + 1)

DrawnSchemes(c, used) == DrawnFrom(c, used, LS_DEFAULT)

\* the rows DrawWidget draws as selected (in white) for the selection x
HighlightedRows(c, used, x) ==
  { k \in 0 .. (Len(DrawnSchemes(c, used)) - 1) : HasBit(x, DrawnSchemes(c, used)[k + 1]) }

\* the bits set in a selection (the selections of the model stay below 2^31)
AllBits(x) == { i \in 0 .. 30 : HasBit(x, i) }

\* this step is the click on row r, a row below the row count (the record of the
\* event is compared first)
ClicksRow(r, ctrl) ==
  /\ last'.a = r
  /\ last'.op \in {"RowClick", "RowClickCtrl", "RowClickNoAssert", "AssertionFailed"}
  /\ RowClick(r, ctrl)

\* C11: in a scheme class, a click without ctrl on any row r below the row count
\* resolves to the r-th scheme, in enum order, that belongs to the class and is in
\* use, which is the scheme drawn on row r; afterwards the highlighted row is r.
C11_ClickAgreesWithDrawing ==
  [][ \A r \in 0 .. (rows - 1) :
        (ClicksRow(r, FALSE) /\ InSchemeClass) =>
          /\ r < Len(DrawnSchemes(livery_class, used_liveries))
          /\ ~Crashed'
          /\ sel' = Pow2(DrawnSchemes(livery_class, used_liveries)[r + 1])
          /\ HighlightedRows(livery_class, used_liveries, sel') = {r} ]_vars

\* C12: no click on the matrix fails the assertion j < LS_END, nor, where the
\* assertion is not compiled in, goes on with a scheme index of LS_END or more.
C12_RowClickNeverFaults ==
  /\ last.op # "AssertionFailed"
  /\ last.op # "RowClickNoAssert"

\* C13: a click in a scheme class on a row that shows a scheme: with ctrl it flips
\* the bit of that scheme and leaves every other bit of the selection as it was;
\* without ctrl the selection becomes that scheme's bit alone.
C13_SchemeRowClick ==
  [][ \A r \in 0 .. (rows - 1), ctrl \in BOOLEAN :
        (/\ ClicksRow(r, ctrl)
         /\ InSchemeClass
         /\ r < Len(DrawnSchemes(livery_class, used_liveries))) =>
          LET j == DrawnSchemes(livery_class, used_liveries)[r + 1]
          IN /\ ctrl => /\ (j \in AllBits(sel')) = (j \notin AllBits(sel))
                        /\ AllBits(sel') \ {j} = AllBits(sel) \ {j}
             /\ ~ctrl => AllBits(sel') = {j}
             /\ livery_class' = livery_class /\ rows' = rows ]_vars

\* ctrl-clicks have accumulated a selection of two schemes
C13_Witness ==
  /\ last.op = "RowClickCtrl"
  /\ InSchemeClass
  /\ Cardinality(AllBits(sel)) >= 2
  /\ AllBits(sel) \subseteq ActiveSchemes(livery_class, used_liveries)

\* C14: a second ctrl-click on the same scheme row, with no event in between,
\* returns the selection to its value before the first ctrl-click.
C14_CtrlClickTwice ==
  [][ \A r \in 0 .. (rows - 1) :
        (last'.op = "RowClickCtrl" /\ ClicksRow(r, TRUE) /\ InSchemeClass) =>
          /\ r < rows'
          /\ RowToScheme(livery_class', used_liveries', r) < LS_END
          /\ OnClickMatrix([Win EXCEPT !.sel = sel'], used_liveries', r, TRUE,
                           INVALID_GROUP).sel = sel ]_vars

\* a ctrl-click has just cleared the only selected scheme
C14_Witness ==
  /\ last.op = "RowClickCtrl"
  /\ InSchemeClass
  /\ sel = 0
  /\ rows > 0

\* C15: a click in a group class on a row of the list selects the group of that
\* row, with or without ctrl, and changes neither the class nor the list; a click
\* at or beyond the length of the list changes nothing.
C15_GroupRowClick ==
  [][ \A ctrl \in BOOLEAN :
        InGroupClass =>
          /\ \A r \in 0 .. (Len(groups) - 1) :
               ClicksRow(r, ctrl) =>
                 (sel' = groups[r + 1] /\ livery_class' = livery_class /\ groups' = groups)
          /\ \A r \in {Len(groups), INT_MAX} :
               (last' = last /\ RowClick(r, ctrl)) =>
                 UNCHANGED <<livery_class, sel, groups, indents, rows>> ]_vars

(* ------------------------------------------------------------------ *)
(* Choosing a colour                                                   *)
(* ------------------------------------------------------------------ *)

\* this step is ColourCommit(index, ctrl)
Commits(index, ctrl) ==
  /\ last'.a = index
  /\ last'.op = (IF ctrl THEN "OnDropdownSelectCtrl" ELSE "OnDropdownSelect")
  /\ ColourCommit(index, ctrl)

\* the commands this step posts
Posted == SubSeq(commands', Len(commands) + 1, Len(commands'))

\* the number of commands cmd among cmds that are addressed to target
PostsTo(cmds, cmd, target) ==
  Cardinality({ i \in 1 .. Len(cmds) : cmds[i].cmd = cmd /\ cmds[i].target = target })

C17_GroupCommitRequest ==
  [][ \A index \in ColourInputs, ctrl \in BOOLEAN :
        (Commits(index, ctrl) /\ InGroupClass) =>
          /\ Len(Posted) = 1
          /\ Posted[1].cmd = "CMD_SET_GROUP_LIVERY"
          /\ Posted[1].target = sel
          /\ Posted[1].target # INVALID_GROUP ]_vars

\* C18: ColourCommit changes no local state: the class, Selection, the group list,
\* the indents, the row count and the list's rebuild flag are as before, and the
\* liveries of the store stay as they are until the authority executes a command.
C18_CommitChangesNoLocalState ==
  [][ /\ \A index \in ColourInputs, ctrl \in BOOLEAN :
           Commits(index, ctrl) =>
             /\ UNCHANGED <<livery_class, sel, groups, indents, rows, need_rebuild>>
             /\ UNCHANGED <<colours, company_livery, group_livery>>
      /\ <<colours, company_livery, group_livery>>' # <<colours, company_livery, group_livery>>
           => (commands # <<>> /\ commands' = Tail(commands)) ]_vars

\* a colour was chosen for a rail scheme: its command is in flight and the scheme's
\* livery is still the one it had
C18_Witness ==
  /\ last.op = "OnDropdownSelect"
  /\ last.a = 5
  /\ livery_class = 1
  /\ commands # <<>>
  /\ \A i \in 1 .. Len(commands) :
       ColourOf(company_livery[commands[i].target], commands[i].primary) # 5

(* ------------------------------------------------------------------ *)
(* The colour dropdown                                                 *)
(* ------------------------------------------------------------------ *)

\* this step is DropdownClick(primary) and shows a dropdown
Opens(primary) ==
  /\ last'.op = "ShowColourDropDownMenu"
  /\ last'.a = (IF primary THEN 1 ELSE 2)
  /\ DropdownClick(primary)

\* the results of the entries of dropdown dd that are masked
MaskedEntries(dd) ==
  { dd.list[i].result : i \in { k \in 1 .. Len(dd.list) : dd.list[k].masked } }

\* C19: an entry of the dropdown is masked only when the slot is primary, the class
\* is a scheme class and the selection is the DEFAULT scheme; for the secondary
\* slot, a scheme other than DEFAULT or a group class no entry is masked.
C19_MaskingOnlyForDefaultPrimary ==
  [][ \A primary \in BOOLEAN :
        Opens(primary) =>
          (MaskedEntries(dropdown') # {}
             => primary /\ InSchemeClass /\ AllBits(sel) = {LS_DEFAULT}) ]_vars

\* the primary dropdown of the DEFAULT scheme is open with masked entries
C19_Witness ==
  /\ dropdown.open
  /\ dropdown.primary
  /\ livery_class = LC_OTHER
  /\ sel = Pow2(LS_DEFAULT)
  /\ MaskedEntries(dropdown) # {}

\* the primary colours of the companies other than the one the window edits
OtherCompanyColours == { colours[c] : c \in AllCompanies \ {window_number} }

MaskedAt(i) == dropdown.open /\ i \in 1 .. Len(dropdown.list) /\ dropdown.list[i].masked

\* C21: a masked entry of the dropdown cannot be chosen: a click on it is never a
\* ColourCommit, and changes neither Selection nor a livery, nor posts a command.
C21_MaskedNotChosen ==
  [][ \A i \in EntryInputs :
        MaskedAt(i) =>
          /\ \A ctrl \in BOOLEAN : ~Commits(dropdown.list[i].result, ctrl)
          /\ (last'.op = "NothingChosen" /\ MaskedClick(i))
               => UNCHANGED <<livery_class, sel, commands, ncommits, colours,
                              company_livery, group_livery>> ]_vars

\* a masked entry of the primary dropdown of the default scheme was clicked on
C21_Witness ==
  /\ last.op = "NothingChosen"
  /\ dropdown.open
  /\ last.a \in MaskedEntries(dropdown)
  /\ commands = <<>>
  /\ sel = Pow2(LS_DEFAULT)

\* the representative scheme of selection x: its lowest scheme, DEFAULT if it has none
Representative(x) ==
  IF AllBits(x) \cap Schemes = {} THEN LS_DEFAULT ELSE Min(AllBits(x) \cap Schemes)

\* there is an inherited reference: always in a group class, in a scheme class when
\* the representative scheme is not DEFAULT
InheritedExists == InGroupClass \/ Representative(sel) # LS_DEFAULT

\* C22: the dropdown lists the 16 palette colours in the order 0..15, preceded by
\* exactly one entry for the default if and only if an inherited reference exists.
C22_DropdownStructure ==
  [][ \A primary \in BOOLEAN :
        Opens(primary) =>
          LET list == dropdown'.list
              n == IF InheritedExists THEN 1 ELSE 0
          IN /\ Len(list) = PaletteSize + n
             /\ \A k \in 0 .. (PaletteSize - 1) : list[n + k + 1].result = k
             /\ \A k \in 1 .. n : list[k].result >= COLOUR_END ]_vars

\* a dropdown with the entry of the default is open for a rail scheme
C22_Witness ==
  /\ dropdown.open
  /\ livery_class = 1
  /\ Representative(sel) # LS_DEFAULT
  /\ Len(dropdown.list) = PaletteSize + 1
  /\ dropdown.list[1].result >= COLOUR_END

\* the inherited reference: the livery of the company's DEFAULT scheme for a scheme
\* and for a root group, the livery of the parent for any other group
Inherited ==
  IF InSchemeClass \/ store[sel].parent = INVALID_GROUP THEN company_livery[LS_DEFAULT]
  ELSE group_livery[store[sel].parent]

\* the colour DropDownListColourItem::Draw shows for an entry
DisplayedColour(entry) == entry.result % COLOUR_END

\* C23: the entry of the default shows the slot's colour of the inherited reference
\* and has an index of COLOUR_END or more; choosing it posts INVALID_COLOUR,
\* whatever the inherited colour is.
C23_DefaultEntryMirrorsInherited ==
  [][ /\ \A primary \in BOOLEAN :
           (Opens(primary) /\ InheritedExists) =>
             /\ DisplayedColour(dropdown'.list[1]) = ColourOf(Inherited, primary)
             /\ dropdown'.list[1].result >= COLOUR_END
      /\ \A index \in COLOUR_END .. (2 * COLOUR_END - 1), ctrl \in BOOLEAN :
           Commits(index, ctrl) =>
             /\ Posted # <<>>
             /\ \A i \in 1 .. Len(Posted) : Posted[i].colour = INVALID_COLOUR ]_vars

\* the entry of the default, which shows the colour of the parent group, was chosen
\* for the group under the root group
C23_Witness ==
  /\ last.op = "OnDropdownSelect"
  /\ InGroupClass
  /\ sel = 1
  /\ Len(commands) = 1
  /\ commands[1].colour = INVALID_COLOUR
  /\ last.a = ColourOf(group_livery[0], commands[1].primary) + COLOUR_END
  /\ ColourOf(group_livery[0], commands[1].primary)
       # ColourOf(company_livery[LS_DEFAULT], commands[1].primary)

\* the representative livery: of the representative scheme, or of the selected group
RepresentativeLivery ==
  IF InSchemeClass THEN company_livery[Representative(sel)] ELSE group_livery[sel]

\* the in_use flag of the representative livery for a slot
SlotInUse(primary) == HasBit(RepresentativeLivery.in_use, IF primary THEN 0 ELSE 1)

\* C24 as stated: if the in_use flag of the representative livery for the slot is
\* false the entry of the default is preselected, otherwise the palette entry of
\* the livery's colour for the slot.
C24_PreselectionAsStated ==
  [][ \A primary \in BOOLEAN :
        Opens(primary) =>
          IF SlotInUse(primary)
            THEN dropdown'.sel = ColourOf(RepresentativeLivery, primary)
            ELSE /\ dropdown'.list[1].result >= COLOUR_END
                 /\ dropdown'.sel = dropdown'.list[1].result ]_vars

\* C24, amended: if an inherited reference exists and the in_use flag of the
\* representative livery for the slot is false, the entry of the default is
\* preselected; otherwise (the flag is true, or the representative is the DEFAULT
\* scheme, which has no entry of the default) the palette entry of the livery's
\* colour for the slot is preselected.
C24_Preselection ==
  [][ \A primary \in BOOLEAN :
        Opens(primary) =>
          IF InheritedExists /\ ~SlotInUse(primary)
            THEN /\ dropdown'.list[1].result >= COLOUR_END
                 /\ dropdown'.sel = dropdown'.list[1].result
            ELSE /\ dropdown'.sel = ColourOf(RepresentativeLivery, primary)
                 /\ \E i \in 1 .. Len(dropdown'.list) :
                      /\ dropdown'.list[i].result = dropdown'.sel
                      /\ dropdown'.list[i].result < COLOUR_END ]_vars

\* a dropdown of the DEFAULT scheme is open whose livery has the slot's flag clear:
\* the livery's own colour is preselected
C24_Witness ==
  /\ dropdown.open
  /\ InSchemeClass
  /\ Representative(sel) = LS_DEFAULT
  /\ ~SlotInUse(dropdown.primary)
  /\ dropdown.sel = ColourOf(company_livery[LS_DEFAULT], dropdown.primary)
  /\ dropdown.sel < COLOUR_END

(* ------------------------------------------------------------------ *)
(* Rebuilding the list                                                 *)
(* ------------------------------------------------------------------ *)

\* window w after a forced rebuild on the store as it is
Rebuilt(w) == BuildGroupList(ForceRebuild(w), store, window_number)

\* this step is Paint
Paints ==
  /\ last' = last
  /\ store' = store
  /\ pending' = pending
  /\ commands' = commands
  /\ dropdown' = dropdown
  /\ Paint

\* C25: two rebuilds on the same store give the same list and the same indents,
\* and a BuildGroupList from paint while the rebuild flag is clear leaves the list,
\* the indents, Selection and the class as they are, even after the store has
\* changed without an invalidation delivered.
C25_RebuildIdempotentAndLazy ==
  [][ /\ Rebuilt(Rebuilt(Win)).groups = Rebuilt(Win).groups
      /\ Rebuilt(Rebuilt(Win)).indents = Rebuilt(Win).indents
      /\ (Paints /\ ~need_rebuild)
           => UNCHANGED <<groups, indents, sel, livery_class>> ]_vars

\* the window was painted with the rebuild flag clear after a group of its list was
\* deleted and before the invalidation is delivered: the list still has the group
C25_Witness ==
  /\ InGroupClass
  /\ ~need_rebuild
  /\ pending # {}
  /\ dangling # {}
  /\ ~dd_disabled
  /\ groups # Rebuilt(Win).groups
  /\ Len(groups) = 2

(* ------------------------------------------------------------------ *)
(* The order of the flattened list                                     *)
(* ------------------------------------------------------------------ *)

\* the sequences that hold the elements of s in some order
Orders(s) ==
  { [i \in 1 .. Len(s) |-> s[f[i]]] :
      f \in { g \in [1 .. Len(s) -> 1 .. Len(s)] :
                \A i, j \in 1 .. Len(s) : g[i] = g[j] => i = j } }

\* the (group, indent) pairs the window holds
Pairs == [i \in 1 .. Len(groups) |-> [group |-> groups[i], indent |-> indents[i]]]

\* C26: the flattened order does not depend on the order in which the store
\* presents the matching groups: every order gives the same (group, indent) pairs.
C26_OrderDeterministic ==
  (InGroupClass /\ ~need_rebuild) =>
    \A order \in Orders(IterateMatching(store, window_number, ClassVehicleType, 0)) :
      AddChildren(store, SortList(store, order), INVALID_GROUP, 0) = Pairs

\* a list of three groups, two of them with the same name, has been built
C26_Witness ==
  /\ InGroupClass
  /\ Len(groups) = 3
  /\ \E i, j \in 1 .. 3 : i # j /\ store[groups[i]].name = store[groups[j]].name


\* ---------------------------------------------------------------------------
\* C27: in every reachable state exactly one class button is lowered, and it
\* is the button of the current livery class: the class switch and
\* SetSelectedGroup raise the button of the old class before they lower the
\* button of the new one, so a click on the current class leaves it lowered.
C27_OneClassLowered == lowered = {livery_class}

\* a class switch has moved the lowered button away from the general class
C27_Witness ==
  /\ last.op = "ClassSwitch"
  /\ livery_class = last.a
  /\ livery_class # LC_OTHER
  /\ lowered = {livery_class}


\* ---------------------------------------------------------------------------
\* the sort key of an emitted group: its name as the comparator's buffer holds it
SortKey(g) == GetString(store[g].name)

\* a name with its letters in lower case
Fold(s) == [i \in 1 .. Len(s) |-> ToLower(s[i])]

DigitFree(s) == \A i \in 1 .. Len(s) : ~IsDigit(s[i])

\* a is before b in the order of the dictionary
RECURSIVE LexLess(_, _, _)
LexLess(a, b, i) ==
  IF i > Len(b) THEN FALSE
  ELSE IF i > Len(a) THEN TRUE
  ELSE IF a[i] # b[i] THEN a[i] < b[i]
  ELSE LexLess(a, b, i + 1)

\* s is letters followed by one run of digits that ends it; the letters, the number
LetterPart(s) == SubSeq(s, 1, Min({ i \in 1 .. (Len(s) + 1) : i > Len(s) \/ IsDigit(s[i]) }) - 1)
Numbered(s) ==
  /\ Len(LetterPart(s)) < Len(s)
  /\ DigitRunEnd(s, Len(LetterPart(s)) + 1) = Len(s) + 1
NumberPart(s) == DigitRunValue(s, Len(LetterPart(s)) + 1, Len(s) + 1)

\* the positions of two emitted siblings, i before j
SiblingPairs ==
  { p \in (1 .. Len(groups)) \X (1 .. Len(groups)) :
      p[1] < p[2] /\ store[groups[p[1]]].parent = store[groups[p[2]]].parent }

\* C28: the sort key compares names in natural order: letter case is ignored
\* (keys equal but for case are in index order, keys without digits are in
\* dictionary order of their lower-case forms) and runs of digits are compared by
\* magnitude (keys of the same letters and a number are in order of the number),
\* so that root groups "G9" and "G10" are emitted "G9" first.
C28_NaturalOrder ==
  InGroupClass =>
    \A p \in SiblingPairs :
      LET a == SortKey(groups[p[1]])
          b == SortKey(groups[p[2]])
      IN /\ Fold(a) = Fold(b) => groups[p[1]] < groups[p[2]]
         /\ (DigitFree(a) /\ DigitFree(b) /\ Fold(a) # Fold(b)) => LexLess(Fold(a), Fold(b), 1)
         /\ (Numbered(a) /\ Numbered(b) /\ Fold(LetterPart(a)) = Fold(LetterPart(b)))
              => NumberPart(a) <= NumberPart(b)
         /\ ~(a = NameG10 /\ b = NameG9)

\* root group 0 is "G10", root group 1 is "G9", and the list starts with group 1
C28_Witness ==
  /\ livery_class = LC_GROUP_RAIL
  /\ store[0].name = NameG10 /\ store[0].parent = INVALID_GROUP
  /\ store[1].name = NameG9 /\ store[1].parent = INVALID_GROUP
  /\ Len(groups) >= 2
  /\ groups[1] = 1
  /\ groups[2] = 0


\* ---------------------------------------------------------------------------
\* the number of parent links from g up to ROOT (followed for at most fuel links)
RECURSIVE DepthFrom(_, _)
DepthFrom(g, fuel) ==
  IF fuel = 0 \/ g \notin DOMAIN store \/ store[g].parent = INVALID_GROUP THEN 0
  ELSE 1 + DepthFrom(store[g].parent, fuel - 1)

Depth(g) == DepthFrom(g, Cardinality(DOMAIN store))

\* C29: the indent of every emitted node is its depth in the forest: a root is
\* emitted at indent 0, and an emitted group with a parent has the indent of
\* its parent plus one.
C29_IndentIsDepth ==
  InGroupClass =>
    /\ Len(indents) = Len(groups)
    /\ \A i \in 1 .. Len(groups) :
         /\ indents[i] = Depth(groups[i])
         /\ store[groups[i]].parent = INVALID_GROUP => indents[i] = 0
         /\ store[groups[i]].parent # INVALID_GROUP =>
              \E j \in 1 .. Len(groups) :
                /\ groups[j] = store[groups[i]].parent
                /\ indents[i] = indents[j] + 1

\* a group under a group under a root has been emitted
C29_Witness ==
  /\ InGroupClass
  /\ \E i \in 1 .. Len(groups) :
       /\ indents[i] = 2
       /\ store[store[groups[i]].parent].parent \in Emitted


\* ---------------------------------------------------------------------------
\* matching records whose parent links lead back to themselves, and the matching
\* records on or below such a cycle
OnCycle == { g \in Matching : Descends(g, g) }
CycleBound == { g \in Matching : \E c \in OnCycle : g = c \/ Descends(g, c) }

Max(S) == CHOOSE x \in S : \A y \in S : x >= y

\* the depth the calls of AddChildren(source, parent, .) nest to: the call itself
\* and, for every record of source under parent, the call made for it; a nesting
\* deeper than fuel is reported as fuel
RECURSIVE CallDepth(_, _)
CallDepth(parent, fuel) ==
  IF fuel = 0 THEN 0
  ELSE 1 + Max({0} \cup { CallDepth(g, fuel - 1) :
                            g \in { m \in Matching : store[m].parent = parent } })

\* C30: the recursive emission terminates for every parent mapping, self-parented
\* groups and cycles of parent links included (the calls nest to a depth of at
\* most the number of matching records plus one), no group is emitted more
\* than once, and a group on or below a cycle is never emitted.
C30_EmissionTerminates ==
  InGroupClass =>
    /\ CallDepth(INVALID_GROUP, Cardinality(DOMAIN store) + 2) <= Cardinality(Matching) + 1
    /\ \A i, j \in 1 .. Len(groups) : i # j => groups[i] # groups[j]
    /\ Emitted \cap CycleBound = {}

\* a store with a cycle of parent links, a group below the cycle or a second
\* group on it, and a list that has been built from it
C30_Witness ==
  /\ InGroupClass
  /\ OnCycle # {}
  /\ Cardinality(CycleBound) >= 2
  /\ Len(groups) >= 1


\* ---------------------------------------------------------------------------
\* C31: in every reachable state in which the class is a group class and the
\* colour buttons are enabled (as the last paint left them), the selection is
\* the id of a group of the store, so that neither building the dropdown nor
\* committing a colour reads INVALID_GROUP or a deleted group, the interval
\* between a deletion and the delivery of its invalidation included.
C31_EnabledSelectionExists ==
  /\ (InGroupClass /\ ~dd_disabled /\ OnPaint(Win, store, window_number) = Win)
       => IsValidID(store, sel)
  /\ last.op # "InvalidPointer"


\* ---------------------------------------------------------------------------
\* C32: at the end of every operation the row count matches the displayed data:
\* in a group class rows is the length of the flattened list, in a scheme class
\* rows is the number of schemes of the current class that are in use, and the
\* indents are as many as the groups. Stated for the states in which every
\* scheduled invalidation has been delivered.
C32_RowsMatchData ==
  (~Crashed /\ pending = {}) =>
    /\ InGroupClass => rows = Len(groups)
    /\ InSchemeClass => rows = Cardinality(ActiveSchemes(livery_class, used_liveries))
    /\ Len(indents) = Len(groups)


\* ---------------------------------------------------------------------------
\* the positions of the open dropdown's list whose entry has the preselected index
PreselectedAt ==
  { i \in 1 .. Len(dropdown.list) : dropdown.list[i].result = dropdown.sel }

\* C33: the value preselected in the colour dropdown is the index of an entry of
\* the list that was built: a palette index 0..15, or the index of the entry of
\* the default that was put first, for every class, selection, slot and in-use flag.
C33_PreselectionInList ==
  dropdown.open =>
    /\ Cardinality(PreselectedAt) = 1
    /\ \/ dropdown.sel \in 0 .. (PaletteSize - 1)
       \/ /\ PreselectedAt = {1}
          /\ dropdown.sel >= COLOUR_END
          /\ Len(dropdown.list) = PaletteSize + 1

\* a dropdown is open for a group with the entry of the default preselected
C33_Witness ==
  /\ dropdown.open
  /\ Len(dropdown.list) = PaletteSize + 1
  /\ dropdown.sel = dropdown.list[1].result
  /\ InGroupClass


\* ---------------------------------------------------------------------------
\* this step delivers the invalidation data in GUI scope
Delivers(data) ==
  /\ last'.op = "OnInvalidateData"
  /\ last'.a = data
  /\ DeliverInvalidate(data)

\* this step announces the invalidation data outside GUI scope
Notifies(data) ==
  /\ last'.op = "OnInvalidateDataNoGui"
  /\ last'.a = data
  /\ NotifyInvalidate(data)

\* C34: an invalidation for a vehicle type that is not the one of the current
\* class (any scheme class, or a group class of another vehicle type), and any
\* invalidation outside GUI scope, leaves the class, the selection, the list,
\* the indents and the row count as they are.
C34_ForeignInvalidateChangesNothing ==
  [][ /\ \A t \in VehicleTypes :
           (Delivers(t) /\ livery_class # GroupClassOf(t)) =>
             UNCHANGED <<livery_class, sel, groups, indents, rows>>
      /\ \A d \in VehicleTypes \cup {-1} :
           Notifies(d) => UNCHANGED <<livery_class, sel, groups, indents, rows>> ]_vars

\* an invalidation was announced outside GUI scope for the vehicle type of the
\* current group class, while the list is not the flattening of the store
C34_Witness ==
  /\ last.op = "OnInvalidateDataNoGui"
  /\ last.a \in VehicleTypes
  /\ livery_class = GroupClassOf(last.a)
  /\ groups # FlatGroups(store, window_number, last.a)


\* ---------------------------------------------------------------------------
\* C35: a general invalidation (data = -1) in a scheme class removes from the
\* selection the bit of every scheme that is not in use, when livery display is
\* on for the window's company, and keeps the other bits and the class unless
\* it switches; when no scheme in use belongs to the current scheme class, and
\* that class is not the general one, it makes the class switch to the general
\* class. In a group class it changes neither the class nor the selection.
C35_GeneralInvalidate ==
  [][ Delivers(-1) =>
        LET shown == LiveriesShown(liveries, window_number)
        IN /\ InSchemeClass =>
                /\ shown => \A s \in Schemes : ~HasBit(used_liveries, s) => ~HasBit(sel', s)
                /\ (livery_class # LC_OTHER /\ ActiveSchemes(livery_class, used_liveries) = {})
                     => /\ livery_class' = LC_OTHER
                        /\ sel' = FirstSchemeSel(LC_OTHER, used_liveries)
                        /\ rows' = Cardinality(ActiveSchemes(LC_OTHER, used_liveries))
                        /\ lowered' = {LC_OTHER}
                /\ livery_class' = livery_class =>
                     BitsOf(sel') = { s \in BitsOf(sel) : shown => HasBit(used_liveries, s) }
           /\ InGroupClass => UNCHANGED <<livery_class, sel>> ]_vars

\* a general invalidation has removed a bit from the selection of a scheme class
\* that stays the current class
C35_Witness ==
  /\ last.op = "OnInvalidateData"
  /\ last.a = -1
  /\ last.r
  /\ livery_class \in 1 .. (LC_GROUP_RAIL - 1)


\* ---------------------------------------------------------------------------
\* this step is ShowCompanyLiveryWindow(company, g) on the open window
ShowsFor(g) ==
  /\ last'.op = "SetSelectedGroup"
  /\ last'.a = g
  /\ ShowForGroup(g)

\* this step is ShowCompanyLiveryWindow(company, g) with no window open
Constructs(g) ==
  /\ last'.op = "Construct"
  /\ last'.a = g
  /\ NewWindow(g)

\* the window shows group g: the class is the group class of its vehicle type,
\* g is selected, and the rebuilt list has g among its entries
ShownFor(g) ==
  /\ livery_class' = GroupClassOf(store[g].vehicle_type)
  /\ sel' = g
  /\ groups' = FlatGroups(store, window_number, store[g].vehicle_type)
  /\ \E i \in 1 .. Len(groups') : groups'[i] = g

\* C36: opening the window for a group, on a new or on an open window, sets the
\* class to the group class of the group's vehicle type, selects the group and
\* rebuilds the list so that the group is an entry of it; a new window for no
\* group starts in the general scheme class with the DEFAULT scheme alone selected.
C36_OpenForGroup ==
  [][ /\ \A g \in DOMAIN store :
           /\ ShowsFor(g) => ShownFor(g)
           /\ Constructs(g) => ShownFor(g)
      /\ Constructs(INVALID_GROUP) =>
           /\ livery_class' = LC_OTHER
           /\ sel' = Pow2(LS_DEFAULT)
           /\ lowered' = {LC_OTHER} ]_vars


\* ---------------------------------------------------------------------------
\* C37: a ColourCommit on a window whose company is not the local company posts
\* no command at all, whatever the class, the selection and ctrl are.
C37_ForeignCommitPostsNothing ==
  [][ \A index \in ColourInputs, ctrl \in BOOLEAN :
        (Commits(index, ctrl) /\ window_number # _local_company) =>
          /\ Posted = <<>>
          /\ commands' = commands ]_vars

\* a colour was chosen with ctrl held in the dropdown of another company's window
\* that has a scheme selected
C37_Witness ==
  /\ last.op = "OnDropdownSelectCtrl"
  /\ window_number # _local_company
  /\ InSchemeClass
  /\ sel # 0
  /\ commands = <<>>


\* ---------------------------------------------------------------------------
\* C38: in a group class a selection of INVALID_GROUP does not outlive an
\* invalidation once a group exists: when the selection is INVALID_GROUP and the
\* invalidation for the vehicle type of the current class rebuilds a list that
\* is not empty, the selection becomes the id of the first row.
C38_NoneSelectionReplaced ==
  [][ \A t \in VehicleTypes :
        (/\ Delivers(t)
         /\ livery_class = GroupClassOf(t)
         /\ sel = INVALID_GROUP
         /\ Len(groups') > 0)
          => /\ sel' = groups'[1]
             /\ sel' = FlatGroups(store, window_number, t)[1]
             /\ livery_class' = livery_class ]_vars

\* the list of a group class was empty, a group was created, and the invalidation
\* has made that group the selection
C38_Witness ==
  /\ last.op = "OnInvalidateData"
  /\ last.r
  /\ InGroupClass
  /\ Len(groups) = 1
  /\ sel = groups[1]
  /\ Cardinality({ g \in DOMAIN store : store[g].valid }) = 1
  /\ nops = 1

====
